---------------------------- MODULE Spec2Model ----------------------------
(***************************************************************************)
(* Odds text-normalization and transformation pipeline of OddsScrapper.   *)
(*                                                                         *)
(* Python strings are modelled as sequences of one-character strings, so   *)
(* that parsing, formatting, prefix/suffix stripping and case conversion   *)
(* are computed character by character as the code computes them.          *)
(***************************************************************************)
EXTENDS Integers, Sequences, FiniteSets, TLC

VARIABLES
    pc,                 \* position of the modelled call sequence
    odds_str,           \* argument of process_odds
    odds_result,        \* value returned by process_odds
    copy_results,       \* values returned by the other copies of process_odds
    raw_label,          \* scraped label given to the name functions
    clean_result,       \* clean_team_name(raw_label)
    norm_result,        \* normalize_driver_name(raw_label)
    renorm_result,      \* normalize_driver_name(norm_result)
    prefix_trace,       \* cleaned_name before the prefix loop and after each of its passes
    page_elements,      \* (team text, odds text) pairs found on the page
    collected_data,     \* odds_data of scrape_championship_odds before its final pass
    scraped_data,       \* list returned by scrape_championship_odds
    dedup_input,        \* argument of remove_duplicate_drivers
    unique_data,        \* list returned by remove_duplicate_drivers
    generator,          \* whether a SevenDigitIDGenerator object exists
    constructed_start,  \* start_id the generator was last constructed or reset with
    current_id,         \* the generator's _current_id
    issued,             \* ids returned by get_next_id since construction or reset
    last_call,          \* the last call made on the generator and its outcome
    id_calls,           \* number of calls made on the generator
    all_issued,         \* ids returned by get_next_id since construction
    page_team_spans,    \* texts of the button-title-market-board spans
    page_odds_spans,    \* texts of the button-odds-market-board spans
    page_division_titles, \* texts of the division title elements
    conference_result,  \* "conferences" returned by scrape_conference_odds
    parsed_labels,      \* (conference, division) parsed from each division title
    division_result,    \* "divisions" returned by scrape_division_odds
    roster_type,        \* tournament_type of scrape_multi_line_tournament
    roster_data,        \* all_odds_data after remove_duplicate_drivers
    ensure_input,       \* list given to ensure_all_players_have_entries
    ensure_lines,       \* betting lines given to ensure_all_players_have_entries
    ensured_data,       \* list returned by ensure_all_players_have_entries
    line_tournaments,   \* tournaments built by scrape_multi_line_tournament
    max_retries,        \* max_retries of the call of _post_with_retries
    post_outcomes,      \* what each requests.post of the call did, in order
    last_exc,           \* last_exc of _post_with_retries
    response,           \* response of _post_with_retries
    retry_result,       \* how the call of _post_with_retries ended
    request_start_id,   \* start_id of the request to a payload endpoint
    scraped_odds_data,  \* what scrape_draftkings_odds returned for the request
    tournaments_data,   \* what scrape_multi_line_tournament returned for the request
    endpoint_status,    \* status code of the answer of the endpoint
    payload_built,      \* the game-creation and the odds-submission payload were built
    payload_num_teams,  \* NumTeams of the game-creation payload
    odds_submission_payload, \* entries of the odds-submission payload
    tournament_payloads,     \* payloads of the betting lines, in order
    api_calls,          \* posts made to the CLM API, in order
    assigner_current_id,     \* _current_id of the id_generator of the running pass
    line_index          \* tournaments that the loop of the running pass has gone through

odds_vars == <<odds_str, odds_result, copy_results>>

name_vars == <<raw_label, clean_result, norm_result, renorm_result, prefix_trace>>

dedup_vars == <<page_elements, collected_data, scraped_data, dedup_input, unique_data>>

id_vars == <<generator, constructed_start, current_id, issued, last_call, id_calls,
             all_issued>>

group_vars == <<page_team_spans, page_odds_spans, page_division_titles,
                conference_result, parsed_labels, division_result>>

line_vars == <<roster_type, roster_data, ensure_input, ensure_lines, ensured_data,
               line_tournaments>>

retry_vars == <<max_retries, post_outcomes, last_exc, response, retry_result>>

payload_vars == <<request_start_id, scraped_odds_data, tournaments_data, endpoint_status,
                  payload_built, payload_num_teams, odds_submission_payload,
                  tournament_payloads, api_calls, assigner_current_id, line_index>>

io_vars == <<retry_vars, payload_vars>>

vars == <<pc, odds_vars, name_vars, dedup_vars, id_vars, group_vars, line_vars, io_vars>>

-----------------------------------------------------------------------------
(* Bounds of the model *)

MaxOdds == 1300             \* magnitudes 0..MaxOdds are enumerated densely
CapNear == 30               \* magnitudes within CapNear of the cap threshold
MaxLeadingZeros == 1        \* leading zeros put before a magnitude
MaxRawLen == 3              \* length of the unstructured odds strings
MaxTokens == 3              \* tokens of a scraped label
MaxNest == 6                \* repetitions of a noise prefix before a name
MaxRecords == 3             \* entries of a scraped list
MaxFallback == 2            \* entries found by the fallback scraping methods
IdMargin == 3               \* start ids within IdMargin of each end of the range
MaxIdCalls == 4             \* calls made on one generator
MaxBatch == 3               \* team spans of a small page
MaxTitles == 4              \* division titles of a small page
MaxRoster == 3              \* entries of a deduplicated roster
MaxEmptyLabels == 2         \* entries of a list with empty and noise-only labels
MaxPayloadTeams == 4        \* team spans of the page of a payload request
MaxLineTeams == 2           \* entries of a betting line of a multi-line request
MaxRetries == 3             \* max_retries of a call of _post_with_retries
MaxEnsure == 2              \* entries given to ensure_all_players_have_entries

-----------------------------------------------------------------------------
(* Python str and int primitives *)

NoString == <<>>

\* TheOne({e(x) : x \in {v}}) is e(x) with x bound to the value of v, which
\* is computed once
TheOne(S) == CHOOSE x \in S : TRUE

Digits == <<"0", "1", "2", "3", "4", "5", "6", "7", "8", "9">>

DigitChars == {Digits[i] : i \in 1..10}

Whitespace == {" ", "\t"}

UpperLetters == <<"A", "B", "C", "D", "E", "F", "G", "H", "I", "J", "K", "L", "M",
                  "N", "O", "P", "Q", "R", "S", "T", "U", "V", "W", "X", "Y", "Z">>

LowerLetters == <<"a", "b", "c", "d", "e", "f", "g", "h", "i", "j", "k", "l", "m",
                  "n", "o", "p", "q", "r", "s", "t", "u", "v", "w", "x", "y", "z">>

UpperToLower ==
    [c \in {UpperLetters[i] : i \in 1..26} |->
        LowerLetters[CHOOSE i \in 1..26 : UpperLetters[i] = c]]

LowerToUpper ==
    [c \in {LowerLetters[i] : i \in 1..26} |->
        UpperLetters[CHOOSE i \in 1..26 : LowerLetters[i] = c]]

char_lower(c) == IF c \in DOMAIN UpperToLower THEN UpperToLower[c] ELSE c

char_upper(c) == IF c \in DOMAIN LowerToUpper THEN LowerToUpper[c] ELSE c

\* str.lower()
str_lower(s) == [i \in 1..Len(s) |-> char_lower(s[i])]

\* str.startswith(prefix)
str_startswith(s, prefix) ==
    Len(prefix) <= Len(s) /\ SubSeq(s, 1, Len(prefix)) = prefix

\* str.endswith(suffix)
str_endswith(s, suffix) ==
    Len(suffix) <= Len(s) /\ SubSeq(s, Len(s) - Len(suffix) + 1, Len(s)) = suffix

\* str.replace(c, '') for a one-character c
str_remove(s, c) == SelectSeq(s, LAMBDA x : x # c)

SetMin(S) == CHOOSE x \in S : \A y \in S : x <= y

SetMax(S) == CHOOSE x \in S : \A y \in S : x >= y

\* str.strip()
str_strip(s) ==
    LET keep == {i \in 1..Len(s) : s[i] \notin Whitespace}
    IN  IF keep = {} THEN NoString ELSE SubSeq(s, SetMin(keep), SetMax(keep))

DigitValue(c) == (CHOOSE i \in 1..10 : Digits[i] = c) - 1

RECURSIVE DecimalValue(_)
\* value of a sequence of decimal digits, most significant first
DecimalValue(ds) ==
    IF ds = <<>> THEN 0
    ELSE 10 * DecimalValue(SubSeq(ds, 1, Len(ds) - 1)) + DigitValue(ds[Len(ds)])

ValueError == -1

\* int(text) for text without a sign: surrounding whitespace is ignored, the
\* rest must be decimal digits, optionally grouped by single underscores;
\* anything else raises ValueError.
py_int(text) ==
    LET t == str_strip(text)
        n == Len(t)
        literal == /\ n > 0
                   /\ \A i \in 1..n : t[i] \in DigitChars \cup {"_"}
                   /\ t[1] # "_" /\ t[n] # "_"
                   /\ \A i \in 1..(n - 1) : ~(t[i] = "_" /\ t[i + 1] = "_")
    IN  IF literal THEN DecimalValue(str_remove(t, "_")) ELSE ValueError

RECURSIVE py_str(_)
\* str(n) / f"{n}" for a non-negative integer
py_str(n) ==
    IF n < 10 THEN <<Digits[n + 1]>>
    ELSE py_str(n \div 10) \o <<Digits[(n % 10) + 1]>>

-----------------------------------------------------------------------------
(* process_odds *)

OddsCap == 20000

\* int(odds_value * 0.75): 0.75 and every magnitude below 2^51 are exact
\* binary floats, so the product is exact and int() truncates it.
reduce_by_quarter(odds_value) == (odds_value * 3) \div 4

\* slip: a last digit 6-9 is lowered to 0 instead of 5
round_down_last_digit_to_ten(processed_value) ==
    LET last_digit == processed_value % 10
    IN  IF last_digit \in {1, 2, 3, 4} THEN processed_value - last_digit
        ELSE IF last_digit \in {6, 7, 8, 9} THEN processed_value - last_digit
        ELSE processed_value

round_down_last_digit(processed_value) ==
    LET last_digit == processed_value % 10
    IN  IF last_digit \in {1, 2, 3, 4} THEN processed_value - last_digit
        ELSE IF last_digit \in {6, 7, 8, 9} THEN processed_value - last_digit + 5
        ELSE processed_value

\* slip: the cap is left out
cap_odds_missing(processed_value) == processed_value

cap_odds(processed_value) ==
    IF processed_value > OddsCap THEN OddsCap ELSE processed_value

\* slip: only positive odds are capped
process_odds_cap_positive_only(s) ==
    LET is_positive == str_startswith(s, <<"+">>)
        odds_value == py_int(str_remove(str_remove(s, "+"), "-"))
        rounded == round_down_last_digit(reduce_by_quarter(odds_value))
    IN  IF odds_value = ValueError
        THEN s
        ELSE <<IF is_positive THEN "+" ELSE "-">>
                 \o py_str(IF is_positive THEN cap_odds(rounded) ELSE rounded)

process_odds(s) ==
    LET is_positive == str_startswith(s, <<"+">>)
        odds_value == py_int(str_remove(str_remove(s, "+"), "-"))
    IN  IF odds_value = ValueError
        THEN s
        ELSE <<IF is_positive THEN "+" ELSE "-">>
                 \o py_str(cap_odds(round_down_last_digit(reduce_by_quarter(odds_value))))

\* debug_scraper.py, with the cap of negative odds left out
process_odds_debug_cap_positive_only(s) ==
    LET is_positive == str_startswith(s, <<"+">>)
        odds_value == py_int(str_remove(str_remove(s, "+"), "-"))
        processed_value == IF ~is_positive THEN reduce_by_quarter(odds_value)
                           ELSE reduce_by_quarter(odds_value)
        rounded == round_down_last_digit(processed_value)
        capped == IF is_positive /\ rounded > 20000 THEN 20000 ELSE rounded
    IN  IF odds_value = ValueError
        THEN s
        ELSE <<IF is_positive THEN "+" ELSE "-">> \o py_str(capped)

\* process_odds of debug_scraper.py: a branch per sign for the reduction and
\* for the cap
process_odds_debug(s) ==
    LET is_positive == str_startswith(s, <<"+">>)
        odds_value == py_int(str_remove(str_remove(s, "+"), "-"))
        processed_value == IF ~is_positive THEN reduce_by_quarter(odds_value)
                           ELSE reduce_by_quarter(odds_value)
        rounded == round_down_last_digit(processed_value)
        capped == IF is_positive /\ rounded > 20000 THEN 20000
                  ELSE IF ~is_positive /\ rounded > 20000 THEN 20000
                  ELSE rounded
    IN  IF odds_value = ValueError
        THEN s
        ELSE <<IF is_positive THEN "+" ELSE "-">> \o py_str(capped)

\* process_odds of fixed_championship_scraper.py
process_odds_fixed(s) ==
    LET is_positive == str_startswith(s, <<"+">>)
        odds_value == py_int(str_remove(str_remove(s, "+"), "-"))
        processed_value == IF ~is_positive THEN reduce_by_quarter(odds_value)
                           ELSE reduce_by_quarter(odds_value)
        rounded == round_down_last_digit(processed_value)
        capped == IF is_positive /\ rounded > 20000 THEN 20000
                  ELSE IF ~is_positive /\ rounded > 20000 THEN 20000
                  ELSE rounded
    IN  IF odds_value = ValueError
        THEN s
        ELSE <<IF is_positive THEN "+" ELSE "-">> \o py_str(capped)

\* process_odds of V1/draftkings/successful_test.py
process_odds_successful_test(s) ==
    LET is_positive == str_startswith(s, <<"+">>)
        odds_value == py_int(str_remove(str_remove(s, "+"), "-"))
        processed_value == reduce_by_quarter(odds_value)
        rounded == round_down_last_digit(processed_value)
        capped == IF rounded > 20000 THEN 20000 ELSE rounded
    IN  IF odds_value = ValueError
        THEN s
        ELSE <<IF is_positive THEN "+" ELSE "-">> \o py_str(capped)

-----------------------------------------------------------------------------
(* _post_with_retries of V1/draftkings/scrapper.py *)

\* last_exc before any attempt raised
NoException == "None"

\* the local variable response before any requests.post returned
Unbound == -1

\* status codes of the responses and exceptions of requests.post
Statuses == {200, 404, 500, 503}

Exceptions == {"Timeout", "ConnectionError"}

PostOutcomes ==
    [kind : {"response"}, status : Statuses, exc : {NoException}]
        \cup [kind : {"exception"}, status : {Unbound}, exc : Exceptions]

NoResult == [kind |-> "pending", status |-> Unbound, exc |-> NoException]

\* if response.status_code < 500: return response
returns_response(status_code) == status_code < 500

\* the statements after the loop, returning the response when there is one
after_loop_prefer_response(exc, last_response) ==
    IF last_response # Unbound
    THEN [kind |-> "returned", status |-> last_response, exc |-> NoException]
    ELSE [kind |-> "raised", status |-> Unbound, exc |-> exc]

\* the statements after the loop: raise last_exc if set, else return response
after_loop(exc, last_response) ==
    IF exc # NoException
    THEN [kind |-> "raised", status |-> Unbound, exc |-> exc]
    ELSE [kind |-> "returned", status |-> last_response, exc |-> NoException]

-----------------------------------------------------------------------------
(* More Python str primitives *)

\* sub in s
str_contains(s, sub) ==
    \/ sub = NoString
    \/ \E i \in 1..(Len(s) - Len(sub) + 1) :
           s[i] = sub[1] /\ SubSeq(s, i, i + Len(sub) - 1) = sub

\* s[n:]
str_from(s, n) == SubSeq(s, n + 1, Len(s))

\* s[:-n] for n > 0
str_drop_last(s, n) == SubSeq(s, 1, Len(s) - n)

\* number of whitespace characters of s starting at position i
RECURSIVE whitespace_run(_, _)
whitespace_run(s, i) ==
    IF i <= Len(s) /\ s[i] \in Whitespace THEN 1 + whitespace_run(s, i + 1) ELSE 0

\* number of non-whitespace characters of s starting at position i
RECURSIVE word_run(_, _)
word_run(s, i) ==
    IF i <= Len(s) /\ s[i] \notin Whitespace THEN 1 + word_run(s, i + 1) ELSE 0

\* s.split(): the maximal runs of non-whitespace characters
RECURSIVE split_from(_, _)
split_from(s, i) ==
    IF i > Len(s) THEN <<>>
    ELSE IF s[i] \in Whitespace THEN split_from(s, i + whitespace_run(s, i))
    ELSE <<SubSeq(s, i, i + word_run(s, i) - 1)>> \o split_from(s, i + word_run(s, i))

str_split(s) == split_from(s, 1)

\* ' '.join(words)
RECURSIVE str_join(_)
str_join(words) ==
    IF words = <<>> THEN NoString
    ELSE IF Len(words) = 1 THEN words[1]
    ELSE words[1] \o <<" ">> \o str_join(Tail(words))

\* word.capitalize()
str_capitalize(word) ==
    [i \in 1..Len(word) |-> IF i = 1 THEN char_upper(word[i]) ELSE char_lower(word[i])]

\* ' '.join(word.capitalize() for word in s.split())
capitalize_words(s) ==
    LET words == str_split(s)
    IN  str_join([i \in 1..Len(words) |-> str_capitalize(words[i])])

\* end position of a match of  ^w1\s+w2\s+...wn  at the start of s, ignoring
\* case, followed by at least trailing_min whitespace characters which the
\* match consumes greedily (\s+ for 1, \s* for 0); -1 when there is no match
RECURSIVE re_match_words(_, _, _, _)
re_match_words(s, at, words, trailing_min) ==
    LET w == str_lower(words[1])
        after_word == at + Len(w)
        run == whitespace_run(s, after_word)
        found == /\ after_word - 1 <= Len(s)
                 /\ str_lower(SubSeq(s, at, after_word - 1)) = w
    IN  IF ~found THEN -1
        ELSE IF Len(words) = 1
             THEN IF run >= trailing_min THEN after_word + run ELSE -1
        ELSE IF run >= 1
             THEN re_match_words(s, after_word + run, Tail(words), trailing_min)
        ELSE -1

\* re.sub(pattern, '', s, flags=re.IGNORECASE).strip() for a pattern anchored
\* at the start
re_sub_leading(s, pattern) ==
    LET end == re_match_words(s, 1, pattern.words, pattern.trailing_min)
    IN  str_strip(IF end = -1 THEN s ELSE SubSeq(s, end, Len(s)))

\* length of the whitespace run of s that ends at position i
RECURSIVE whitespace_run_back(_, _)
whitespace_run_back(s, i) ==
    IF i >= 1 /\ s[i] \in Whitespace THEN 1 + whitespace_run_back(s, i - 1) ELSE 0

\* re.sub(r'\s+' + word + '$', '', s, flags=re.IGNORECASE).strip(): the
\* leftmost match starts at the beginning of the whitespace run before the
\* final word
re_sub_trailing(s, word) ==
    LET w == str_lower(word)
        before == Len(s) - Len(w)
        run == whitespace_run_back(s, before)
    IN  str_strip(IF str_endswith(str_lower(s), w) /\ run >= 1
                  THEN SubSeq(s, 1, before - run)
                  ELSE s)

-----------------------------------------------------------------------------
(* clean_team_name and normalize_driver_name *)

unwanted_prefixes == <<
    <<"F", "i", "n", "i", "s", "h">>,
    <<"T", "o", " ", "F", "i", "n", "i", "s", "h">>,
    <<"T", "o", " ", "W", "i", "n">>,
    <<"W", "i", "n", "n", "e", "r">>,
    <<"C", "h", "a", "m", "p", "i", "o", "n">>,
    <<"T", "o", "p">>,
    <<"P", "l", "a", "c", "e">>,
    <<"P", "o", "s", "i", "t", "i", "o", "n">>,
    <<"A", "M", "R", "A", "C", "E", " ", "W", "i", "n", "n", "e", "r">>,
    <<"A", "M", "R", "A", "C", "E">>,
    <<"R", "a", "c", "e", " ", "W", "i", "n", "n", "e", "r">>,
    <<"R", "a", "c", "e">>,
    <<"F", "i", "n", "i", "s", "h", " ">>,
    <<"F", "i", "n", "i", "s", "h", " ", "T", "o">>,
    <<"F", "i", "n", "i", "s", "h", " ", "W", "i", "n", "n", "e", "r">>,
    <<"F", "i", "n", "i", "s", "h", " ", "L", "a", "n", "d", "o">>,
    <<"F", "i", "n", "i", "s", "h", " ", "M", "a", "x">>,
    <<"F", "i", "n", "i", "s", "h", " ", "O", "s", "c", "a", "r">>,
    <<"F", "i", "n", "i", "s", "h", " ", "G", "e", "o", "r", "g", "e">>,
    <<"F", "i", "n", "i", "s", "h", " ", "C", "h", "a", "r", "l", "e", "s">>,
    <<"F", "i", "n", "i", "s", "h", " ", "L", "e", "w", "i", "s">>
>>

unwanted_suffixes == <<
    <<"F", "i", "n", "i", "s", "h">>,
    <<"W", "i", "n", "n", "e", "r">>,
    <<"C", "h", "a", "m", "p", "i", "o", "n">>,
    <<"T", "o", " ", "W", "i", "n">>,
    <<"T", "o", " ", "F", "i", "n", "i", "s", "h">>
>>

max_iterations == 5

\* prefix.lower() and suffix.lower() of the two lists
lower_prefixes == [k \in 1..Len(unwanted_prefixes) |-> str_lower(unwanted_prefixes[k])]

lower_suffixes == [k \in 1..Len(unwanted_suffixes) |-> str_lower(unwanted_suffixes[k])]

\* one pass of the prefix loop: the first prefix of the list that the name
\* starts with (ignoring case) is cut off and the rest stripped
remove_first_prefix(cleaned_name) ==
    LET lowered == str_lower(cleaned_name)
        matching == {k \in 1..Len(unwanted_prefixes) :
                        str_startswith(lowered, lower_prefixes[k])}
    IN  IF matching = {} THEN cleaned_name
        ELSE str_strip(str_from(cleaned_name, Len(unwanted_prefixes[SetMin(matching)])))

\* for iteration in range(max_iterations): ... break when a pass changes nothing
RECURSIVE remove_prefixes(_, _)
remove_prefixes(cleaned_name, iterations) ==
    IF iterations = 0 THEN cleaned_name
    ELSE TheOne({IF after = cleaned_name THEN cleaned_name
                 ELSE remove_prefixes(after, iterations - 1) :
                     after \in {remove_first_prefix(cleaned_name)}})

\* cleaned_name at the start of the prefix loop and after every pass that
\* the loop makes, with the break after a pass that changes nothing left out
RECURSIVE prefix_passes_no_break(_, _)
prefix_passes_no_break(cleaned_name, iterations) ==
    IF iterations = 0 THEN <<cleaned_name>>
    ELSE TheOne({<<cleaned_name>> \o prefix_passes_no_break(after, iterations - 1) :
                     after \in {remove_first_prefix(cleaned_name)}})

\* cleaned_name at the start of the prefix loop and after every pass that
\* the loop makes
RECURSIVE prefix_passes(_, _)
prefix_passes(cleaned_name, iterations) ==
    IF iterations = 0 THEN <<cleaned_name>>
    ELSE TheOne({IF after = cleaned_name THEN <<cleaned_name, after>>
                 ELSE <<cleaned_name>> \o prefix_passes(after, iterations - 1) :
                     after \in {remove_first_prefix(cleaned_name)}})

\* the names the prefix loop of clean_team_name goes through; a falsy
\* team_name is returned before the loop
prefix_loop_trace(team_name) ==
    IF team_name = NoString THEN <<>>
    ELSE prefix_passes(str_strip(team_name), max_iterations)

\* for suffix in unwanted_suffixes: one test of each suffix, in list order
RECURSIVE remove_suffixes(_, _)
remove_suffixes(cleaned_name, k) ==
    IF k > Len(unwanted_suffixes) THEN cleaned_name
    ELSE TheOne({remove_suffixes(after, k + 1) :
                     after \in {IF str_endswith(str_lower(cleaned_name), lower_suffixes[k])
                                THEN str_strip(str_drop_last(cleaned_name,
                                                             Len(unwanted_suffixes[k])))
                                ELSE cleaned_name}})

\* unwanted_patterns, in order; the second one (\s+Finish$) is anchored at the end
leading_patterns == <<
    [words |-> <<<<"F", "i", "n", "i", "s", "h">>>>, trailing_min |-> 0],
    [words |-> <<<<"T", "o">>, <<"F", "i", "n", "i", "s", "h">>>>, trailing_min |-> 1],
    [words |-> <<<<"T", "o">>, <<"W", "i", "n">>>>, trailing_min |-> 1],
    [words |-> <<<<"A", "M", "R", "a", "c", "e">>, <<"W", "i", "n", "n", "e", "r">>>>, trailing_min |-> 0],
    [words |-> <<<<"A", "M", "R", "A", "C", "E">>, <<"W", "i", "n", "n", "e", "r">>>>, trailing_min |-> 0],
    [words |-> <<<<"R", "a", "c", "e">>, <<"W", "i", "n", "n", "e", "r">>>>, trailing_min |-> 0]
>>

RECURSIVE remove_leading_patterns(_, _)
remove_leading_patterns(cleaned_name, k) ==
    IF k > Len(leading_patterns) THEN cleaned_name
    ELSE TheOne({remove_leading_patterns(after, k + 1) :
                     after \in {re_sub_leading(cleaned_name, leading_patterns[k])}})

remove_patterns(cleaned_name) ==
    TheOne({TheOne({remove_leading_patterns(second, 2) :
                        second \in {re_sub_trailing(first, <<"F", "i", "n", "i", "s", "h">>)}}) :
                first \in {re_sub_leading(cleaned_name, leading_patterns[1])}})

clean_team_name(team_name) ==
    IF team_name = NoString THEN team_name
    ELSE TheOne({TheOne({TheOne({TheOne({remove_patterns(collapsed) :
             collapsed \in {str_join(str_split(no_suffix))}}) :
             no_suffix \in {remove_suffixes(no_prefix, 1)}}) :
             no_prefix \in {remove_prefixes(stripped, max_iterations)}}) :
             stripped \in {str_strip(team_name)}})

f1_drivers == <<
    <<"l", "a", "n", "d", "o", " ", "n", "o", "r", "r", "i", "s">>,
    <<"m", "a", "x", " ", "v", "e", "r", "s", "t", "a", "p", "p", "e", "n">>,
    <<"o", "s", "c", "a", "r", " ", "p", "i", "a", "s", "t", "r", "i">>,
    <<"g", "e", "o", "r", "g", "e", " ", "r", "u", "s", "s", "e", "l", "l">>,
    <<"c", "h", "a", "r", "l", "e", "s", " ", "l", "e", "c", "l", "e", "r", "c">>,
    <<"l", "e", "w", "i", "s", " ", "h", "a", "m", "i", "l", "t", "o", "n">>,
    <<"c", "a", "r", "l", "o", "s", " ", "s", "a", "i", "n", "z">>,
    <<"a", "l", "e", "x", "a", "n", "d", "e", "r", " ", "a", "l", "b", "o", "n">>,
    <<"a", "n", "d", "r", "e", "a", " ", "k", "i", "m", "i", " ", "a", "n", "t", "o", "n", "e", "l", "l", "i">>,
    <<"i", "s", "a", "c", "k", " ", "h", "a", "d", "j", "a", "r">>,
    <<"f", "e", "r", "n", "a", "n", "d", "o", " ", "a", "l", "o", "n", "s", "o">>,
    <<"s", "e", "r", "g", "i", "o", " ", "p", "e", "r", "e", "z">>,
    <<"v", "a", "l", "t", "t", "e", "r", "i", " ", "b", "o", "t", "t", "a", "s">>,
    <<"e", "s", "t", "e", "b", "a", "n", " ", "o", "c", "o", "n">>,
    <<"p", "i", "e", "r", "r", "e", " ", "g", "a", "s", "l", "y">>,
    <<"y", "u", "k", "i", " ", "t", "s", "u", "n", "o", "d", "a">>,
    <<"k", "e", "v", "i", "n", " ", "m", "a", "g", "n", "u", "s", "s", "e", "n">>,
    <<"n", "i", "c", "o", " ", "h", "u", "l", "k", "e", "n", "b", "e", "r", "g">>,
    <<"l", "a", "n", "c", "e", " ", "s", "t", "r", "o", "l", "l">>,
    <<"l", "o", "g", "a", "n", " ", "s", "a", "r", "g", "e", "a", "n", "t">>
>>

\* the first roster entry contained in the lower-cased name, 0 when none is
first_driver_in(cleaned_lower) ==
    TheOne({IF found = {} THEN 0 ELSE SetMin(found) :
                found \in {{k \in 1..Len(f1_drivers) :
                               str_contains(cleaned_lower, f1_drivers[k])}}})

normalize_driver_name(name) ==
    IF name = NoString THEN name
    ELSE TheOne({TheOne({IF driver # 0 THEN capitalize_words(f1_drivers[driver])
                         ELSE cleaned :
                             driver \in {first_driver_in(str_lower(cleaned))}}) :
                     cleaned \in {clean_team_name(name)}})

-----------------------------------------------------------------------------
(* remove_duplicate_drivers *)

\* the loop of remove_duplicate_drivers from entry i on
\* the loop of remove_duplicate_drivers without the test that the name is not empty
RECURSIVE remove_duplicates_keep_empty_from(_, _, _, _)
remove_duplicates_keep_empty_from(odds_data, i, seen_drivers, unique_odds_data) ==
    IF i > Len(odds_data) THEN unique_odds_data
    ELSE TheOne({
             IF normalized_name \notin seen_drivers
             THEN remove_duplicates_keep_empty_from(odds_data, i + 1,
                      seen_drivers \cup {normalized_name},
                      Append(unique_odds_data,
                             [odds_data[i] EXCEPT !.team = normalized_name]))
             ELSE remove_duplicates_keep_empty_from(odds_data, i + 1, seen_drivers,
                                                    unique_odds_data) :
                 normalized_name \in {normalize_driver_name(odds_data[i].team)}})

RECURSIVE remove_duplicates_from(_, _, _, _)
remove_duplicates_from(odds_data, i, seen_drivers, unique_odds_data) ==
    IF i > Len(odds_data) THEN unique_odds_data
    ELSE TheOne({
             IF normalized_name # NoString /\ normalized_name \notin seen_drivers
             THEN remove_duplicates_from(odds_data, i + 1,
                      seen_drivers \cup {normalized_name},
                      Append(unique_odds_data,
                             [odds_data[i] EXCEPT !.team = normalized_name]))
             ELSE remove_duplicates_from(odds_data, i + 1, seen_drivers, unique_odds_data) :
                 normalized_name \in {normalize_driver_name(odds_data[i].team)}})

\* slip: the seen set is tested with the raw label, not the normalized name
RECURSIVE remove_duplicates_raw_from(_, _, _, _)
remove_duplicates_raw_from(odds_data, i, seen_drivers, unique_odds_data) ==
    IF i > Len(odds_data) THEN unique_odds_data
    ELSE TheOne({
             IF normalized_name # NoString /\ odds_data[i].team \notin seen_drivers
             THEN remove_duplicates_raw_from(odds_data, i + 1,
                      seen_drivers \cup {normalized_name},
                      Append(unique_odds_data,
                             [odds_data[i] EXCEPT !.team = normalized_name]))
             ELSE remove_duplicates_raw_from(odds_data, i + 1, seen_drivers,
                      unique_odds_data) :
                 normalized_name \in {normalize_driver_name(odds_data[i].team)}})

remove_duplicate_drivers_raw(odds_data) ==
    remove_duplicates_raw_from(odds_data, 1, {}, <<>>)

\* slip: a later record with odds replaces a kept record that has none
RECURSIVE remove_duplicates_prefer_odds_from(_, _, _, _)
remove_duplicates_prefer_odds_from(odds_data, i, seen_drivers, unique_odds_data) ==
    IF i > Len(odds_data) THEN unique_odds_data
    ELSE TheOne({
             IF renamed.team # NoString /\ renamed.team \notin seen_drivers
             THEN remove_duplicates_prefer_odds_from(odds_data, i + 1,
                      seen_drivers \cup {renamed.team},
                      Append(unique_odds_data, renamed))
             ELSE remove_duplicates_prefer_odds_from(odds_data, i + 1, seen_drivers,
                      [k \in 1..Len(unique_odds_data) |->
                          IF /\ unique_odds_data[k].team = renamed.team
                             /\ unique_odds_data[k].odds = NoString
                          THEN renamed ELSE unique_odds_data[k]]) :
                 renamed \in {[odds_data[i] EXCEPT
                                  !.team = normalize_driver_name(odds_data[i].team)]}})

remove_duplicate_drivers_prefer_odds(odds_data) ==
    remove_duplicates_prefer_odds_from(odds_data, 1, {}, <<>>)

remove_duplicate_drivers(odds_data) == remove_duplicates_from(odds_data, 1, {}, <<>>)

-----------------------------------------------------------------------------
(* scrape_championship_odds *)

tournament_indicators == <<
    <<"l", "a", "s", " ", "v", "e", "g", "a", "s">>,
    <<"m", "i", "a", "m", "i">>,
    <<"m", "o", "n", "a", "c", "o">>,
    <<"s", "i", "l", "v", "e", "r", "s", "t", "o", "n", "e">>,
    <<"s", "p", "a">>,
    <<"m", "o", "n", "z", "a">>,
    <<"s", "p", "a", "i", "n">>,
    <<"f", "r", "a", "n", "c", "e">>,
    <<"a", "u", "s", "t", "r", "i", "a">>,
    <<"h", "u", "n", "g", "a", "r", "y">>,
    <<"b", "e", "l", "g", "i", "u", "m">>,
    <<"n", "e", "t", "h", "e", "r", "l", "a", "n", "d", "s">>,
    <<"s", "i", "n", "g", "a", "p", "o", "r", "e">>,
    <<"j", "a", "p", "a", "n">>,
    <<"a", "u", "s", "t", "r", "a", "l", "i", "a">>,
    <<"b", "a", "h", "r", "a", "i", "n">>,
    <<"s", "a", "u", "d", "i">>,
    <<"q", "a", "t", "a", "r">>,
    <<"a", "b", "u", " ", "d", "h", "a", "b", "i">>,
    <<"b", "r", "a", "z", "i", "l">>,
    <<"m", "e", "x", "i", "c", "o">>,
    <<"c", "a", "n", "a", "d", "a">>,
    <<"a", "z", "e", "r", "b", "a", "i", "j", "a", "n">>,
    <<"c", "h", "i", "n", "a">>,
    <<"r", "u", "s", "s", "i", "a">>,
    <<"p", "o", "r", "t", "u", "g", "a", "l">>,
    <<"t", "u", "r", "k", "e", "y">>,
    <<"i", "m", "o", "l", "a">>,
    <<"e", "m", "i", "l", "i", "a">>,
    <<"r", "o", "m", "a", "g", "n", "a">>,
    <<"u", "s", "a", " ", "g", "p">>,
    <<"u", "s", "a", " ", "g", "r", "a", "n", "d", " ", "p", "r", "i", "x">>
>>

next_week_indicators == <<
    <<"n", "e", "x", "t", " ", "w", "e", "e", "k">>,
    <<"u", "p", "c", "o", "m", "i", "n", "g">>,
    <<"f", "u", "t", "u", "r", "e">>,
    <<"n", "e", "x", "t", " ", "r", "a", "c", "e">>,
    <<"n", "e", "x", "t", " ", "g", "r", "a", "n", "d", " ", "p", "r", "i", "x">>,
    <<"n", "e", "x", "t", " ", "t", "o", "u", "r", "n", "a", "m", "e", "n", "t">>,
    <<"n", "e", "x", "t", " ", "e", "v", "e", "n", "t">>,
    <<"n", "e", "x", "t", " ", "r", "o", "u", "n", "d">>
>>

default_entry_limit == 25

contains_any(text, indicators) ==
    \E k \in 1..Len(indicators) : str_contains(text, indicators[k])

\* Method 1: the loop over zip(team_elements[:max_entries], odds_elements[:max_entries])
\* from element k on (enumerate's i is k - 1)
RECURSIVE scrape_elements_from(_, _, _, _, _)
scrape_elements_from(elements, max_entries, k, seen_teams, odds_data) ==
    IF k > max_entries THEN odds_data
    ELSE TheOne({TheOne({
             LET original_odds == str_strip(elements[k].odds)
                 processed_odds == process_odds(original_odds)
                 team_lower == str_lower(team_text)
                 boundary == \/ contains_any(team_lower, tournament_indicators)
                             \/ contains_any(team_lower, next_week_indicators)
                 record == IF original_odds # NoString /\ processed_odds # NoString
                           THEN [team |-> normalized_name, odds |-> processed_odds,
                                 original_odds |-> original_odds]
                           ELSE [team |-> normalized_name, odds |-> NoString,
                                 original_odds |-> NoString]
             IN  IF boundary /\ k - 1 > 5 THEN odds_data
                 ELSE IF normalized_name # NoString /\ normalized_name \notin seen_teams
                 THEN scrape_elements_from(elements, max_entries, k + 1,
                          seen_teams \cup {normalized_name}, Append(odds_data, record))
                 ELSE scrape_elements_from(elements, max_entries, k + 1, seen_teams,
                                           odds_data) :
                     normalized_name \in {normalize_driver_name(team_text)}}) :
                 team_text \in {clean_team_name(str_strip(elements[k].team))}})

\* Method 1 on a page with at most one tournament header
scrape_method_1(elements) ==
    LET max_entries == IF Len(elements) < default_entry_limit
                       THEN Len(elements) ELSE default_entry_limit
    IN  scrape_elements_from(elements, max_entries, 1, {}, <<>>)

\* final deduplication check from item i on
RECURSIVE final_deduplication_from(_, _, _, _)
final_deduplication_from(odds_data, i, final_seen_teams, final_odds_data) ==
    IF i > Len(odds_data) THEN final_odds_data
    ELSE LET item == odds_data[i]
         IN  IF item.team \notin final_seen_teams
             THEN final_deduplication_from(odds_data, i + 1,
                      final_seen_teams \cup {item.team}, Append(final_odds_data, item))
             ELSE final_deduplication_from(odds_data, i + 1, final_seen_teams,
                      final_odds_data)

final_deduplication(odds_data) == final_deduplication_from(odds_data, 1, {}, <<>>)

\* Methods 2 and 3 run only when Method 1 found nothing.  They read other parts
\* of the page (offer cards, page text), so their result is a choice among the
\* lists they can build: records with the raw, pairwise distinct team texts
\* and processed signed odds.
collect_odds_data(elements, fallback_data) ==
    LET method_1 == scrape_method_1(elements)
    IN  IF method_1 # <<>> THEN method_1 ELSE fallback_data

scrape_championship_odds(elements, fallback_data) ==
    final_deduplication(collect_odds_data(elements, fallback_data))

-----------------------------------------------------------------------------
(* Inputs of process_odds *)

Signs == {"+", "-"}

\* magnitudes used by test_new_odds_calculation
TestMagnitudes == {475, 650, 784, 456, 123, 789, 1200, 20000, 25000, 30000}

\* smallest magnitude whose 25% reduction exceeds the cap
CapThreshold == ((OddsCap + 1) * 4 + 2) \div 3

OddsMagnitudes ==
    (0..MaxOdds) \cup ((CapThreshold - CapNear)..(CapThreshold + CapNear))
        \cup TestMagnitudes

Zeros(k) == [i \in 1..k |-> "0"]

WellFormedOdds ==
    {<<sign>> \o Zeros(z) \o py_str(m) :
        sign \in Signs, z \in 0..MaxLeadingZeros, m \in OddsMagnitudes}

OddsAlphabet == {"+", "-", "6", "0", " ", "a", "_"}

RawOdds == UNION {[1..n -> OddsAlphabet] : n \in 0..MaxRawLen}

OddsInputs == WellFormedOdds \cup RawOdds

IsWellFormedOdds(s) ==
    /\ Len(s) >= 2
    /\ s[1] \in Signs
    /\ \A i \in 2..Len(s) : s[i] \in DigitChars

-----------------------------------------------------------------------------
(* Specification of the odds transformer *)

NoCopies == [debug |-> NoString, fixed |-> NoString, successful_test |-> NoString]

OddsIdle == odds_str = NoString /\ odds_result = NoString /\ copy_results = NoCopies

NamesIdle ==
    /\ raw_label = NoString
    /\ clean_result = NoString
    /\ norm_result = NoString
    /\ renorm_result = NoString
    /\ prefix_trace = <<>>

DedupIdle ==
    /\ page_elements = <<>>
    /\ collected_data = <<>>
    /\ scraped_data = <<>>
    /\ dedup_input = <<>>
    /\ unique_data = <<>>

NoCall == [op |-> "none", outcome |-> "none", arg |-> 0, before |-> 0, value |-> 0]

IdsIdle ==
    /\ generator = "none"
    /\ constructed_start = 0
    /\ current_id = 0
    /\ issued = <<>>
    /\ last_call = NoCall
    /\ id_calls = 0
    /\ all_issued = <<>>

GroupsIdle ==
    /\ page_team_spans = <<>>
    /\ page_odds_spans = <<>>
    /\ page_division_titles = <<>>
    /\ conference_result = <<>>
    /\ parsed_labels = <<>>
    /\ division_result = <<>>

LinesIdle ==
    /\ roster_type = "none"
    /\ roster_data = <<>>
    /\ ensure_input = <<>>
    /\ ensure_lines = <<>>
    /\ ensured_data = <<>>
    /\ line_tournaments = <<>>

RetryIdle ==
    /\ max_retries = 0
    /\ post_outcomes = <<>>
    /\ last_exc = NoException
    /\ response = Unbound
    /\ retry_result = NoResult

PayloadIdle ==
    /\ request_start_id = 0
    /\ scraped_odds_data = [is_dict |-> FALSE, dict |-> [message |-> 0], list |-> <<>>]
    /\ tournaments_data = <<>>
    /\ endpoint_status = 0
    /\ payload_built = FALSE
    /\ payload_num_teams = 0
    /\ odds_submission_payload = <<>>
    /\ tournament_payloads = <<>>
    /\ api_calls = <<>>
    /\ assigner_current_id = 0
    /\ line_index = 0

IoIdle == RetryIdle /\ PayloadIdle

InitOdds ==
    /\ pc = "start"
    /\ odds_str \in OddsInputs
    /\ odds_result = NoString
    /\ copy_results = NoCopies
    /\ NamesIdle
    /\ DedupIdle
    /\ IdsIdle
    /\ GroupsIdle
    /\ LinesIdle
    /\ IoIdle

ProcessOdds ==
    /\ pc = "start"
    /\ odds_result' = process_odds(odds_str)
    /\ copy_results' = [debug |-> process_odds_debug(odds_str),
                        fixed |-> process_odds_fixed(odds_str),
                        successful_test |-> process_odds_successful_test(odds_str)]
    /\ pc' = "done"
    /\ UNCHANGED <<odds_str, name_vars, dedup_vars, id_vars, group_vars, line_vars, io_vars>>

NextOdds == ProcessOdds

SpecOdds == InitOdds /\ [][NextOdds]_vars

-----------------------------------------------------------------------------
(* Inputs of the name functions *)

Vocabulary == {
    NoString,
    <<"F", "i", "n", "i", "s", "h">>,
    <<"W", "i", "n", "n", "e", "r">>,
    <<"C", "h", "a", "m", "p", "i", "o", "n">>,
    <<"T", "o">>,
    <<"W", "i", "n">>,
    <<"T", "o", "p">>,
    <<"R", "a", "c", "e">>,
    <<"m", "a", "x">>,
    <<"V", "e", "r", "s", "t", "a", "p", "p", "e", "n">>,
    <<"b", "o", "b">>,
    <<"x">>
}

\* labels made of up to MaxTokens tokens separated by single spaces; an empty
\* token gives leading, trailing or doubled spaces
TokenLabels ==
    {str_join(tokens) : tokens \in UNION {[1..n -> Vocabulary] : n \in 0..MaxTokens}}

RECURSIVE Repeat(_, _)
Repeat(s, n) == IF n = 0 THEN NoString ELSE s \o Repeat(s, n - 1)

\* a name behind 1..MaxNest copies of one noise prefix
NestedLabels ==
    {Repeat(prefix \o <<" ">>, n) \o <<"B", "o", "b">> :
        prefix \in {<<"T", "o", "p">>, <<"F", "i", "n", "i", "s", "h">>}, n \in 1..MaxNest}

Labels == TokenLabels \cup NestedLabels

-----------------------------------------------------------------------------
(* Specification of the name cleaner and normalizer *)

InitNames ==
    /\ pc = "start"
    /\ raw_label \in Labels
    /\ clean_result = NoString
    /\ norm_result = NoString
    /\ renorm_result = NoString
    /\ prefix_trace = <<>>
    /\ OddsIdle
    /\ DedupIdle
    /\ IdsIdle
    /\ GroupsIdle
    /\ LinesIdle
    /\ IoIdle

CleanTeamName ==
    /\ pc = "start"
    /\ clean_result' = clean_team_name(raw_label)
    /\ prefix_trace' = prefix_loop_trace(raw_label)
    /\ pc' = "cleaned"
    /\ UNCHANGED <<raw_label, norm_result, renorm_result, odds_vars, dedup_vars, id_vars, group_vars, line_vars,
                   io_vars>>

NormalizeDriverName ==
    /\ pc = "cleaned"
    /\ norm_result' = normalize_driver_name(raw_label)
    /\ pc' = "normalized"
    /\ UNCHANGED <<raw_label, clean_result, renorm_result, prefix_trace, odds_vars, dedup_vars, id_vars, group_vars, line_vars,
                   io_vars>>

\* the normalizer applied to its own output
NormalizeAgain ==
    /\ pc = "normalized"
    /\ renorm_result' = normalize_driver_name(norm_result)
    /\ pc' = "done"
    /\ UNCHANGED <<raw_label, clean_result, norm_result, prefix_trace, odds_vars, dedup_vars, id_vars, group_vars, line_vars,
                   io_vars>>

NextNames == CleanTeamName \/ NormalizeDriverName \/ NormalizeAgain

SpecNames == InitNames /\ [][NextNames]_vars

-----------------------------------------------------------------------------
(* Specification of the deduplicator *)

TeamTexts == {
    <<"L", "a", "n", "d", "o", " ", "N", "o", "r", "r", "i", "s">>,
    <<"F", "i", "n", "i", "s", "h", " ", "L", "a", "n", "d", "o", " ", "N", "o", "r", "r", "i", "s">>,
    <<"b", "o", "b">>,
    <<"W", "i", "n", "n", "e", "r">>
}

OddsTexts == {NoString, <<"+", "6", "5", "0">>}

Elements == [team : TeamTexts, odds : OddsTexts]

ElementLists == UNION {[1..n -> Elements] : n \in 0..MaxRecords}

\* labels that are empty, blank or made of noise tokens only
NoiseLabels == {NoString, <<" ">>, <<"R", "a", "c", "e", " ", "W", "i", "n", "n", "e", "r">>}

\* short lists with such labels
EmptyLabelLists ==
    UNION {[1..n -> [team : NoiseLabels \cup {<<"b", "o", "b">>},
                     odds : {<<"+", "6", "5", "0">>}]] : n \in 1..MaxEmptyLabels}

\* seven entries, the one at position p naming another tournament
BoundaryList(p) ==
    [k \in 1..7 |->
        [team |-> IF k = p THEN <<"M", "i", "a", "m", "i", " ", "G", "P">>
                  ELSE <<"d", "r", "i", "v", "e", "r", " ", Digits[k + 1]>>,
         odds |-> <<"+", "6", "5", "0">>]]

BoundaryLists == {BoundaryList(p) : p \in 1..7}

\* dict entries as remove_duplicate_drivers receives them
AsEntries(elements) ==
    [k \in 1..Len(elements) |->
        [team |-> elements[k].team, odds |-> elements[k].odds,
         original_odds |-> elements[k].odds]]

FallbackRecords ==
    {[team |-> team, odds |-> process_odds(<<"+", "6", "5", "0">>),
      original_odds |-> <<"+", "6", "5", "0">>] : team \in TeamTexts}

FallbackResults ==
    {data \in UNION {[1..n -> FallbackRecords] : n \in 0..MaxFallback} :
        \A i, j \in 1..Len(data) : i # j => data[i].team # data[j].team}

InitDedup ==
    /\ pc = "start"
    /\ page_elements \in ElementLists \cup BoundaryLists \cup EmptyLabelLists
    /\ collected_data = <<>>
    /\ scraped_data = <<>>
    /\ dedup_input = <<>>
    /\ unique_data = <<>>
    /\ OddsIdle
    /\ NamesIdle
    /\ IdsIdle
    /\ GroupsIdle
    /\ LinesIdle
    /\ IoIdle

\* remove_duplicate_drivers called on a list of entries
RemoveDuplicateDrivers ==
    /\ pc = "start"
    /\ dedup_input' = AsEntries(page_elements)
    /\ unique_data' = remove_duplicate_drivers(AsEntries(page_elements))
    /\ pc' = "deduplicated"
    /\ UNCHANGED <<page_elements, collected_data, scraped_data, odds_vars, name_vars, id_vars, group_vars, line_vars,
                   io_vars>>

\* what Methods 2 and 3 can return; they are not run when Method 1 found data
FallbackChoices(elements) ==
    IF scrape_method_1(elements) # <<>> THEN {<<>>} ELSE FallbackResults

ScrapeChampionshipOdds ==
    /\ pc = "start"
    /\ \E fallback_data \in FallbackChoices(page_elements) :
           /\ collected_data' = collect_odds_data(page_elements, fallback_data)
           /\ scraped_data' = scrape_championship_odds(page_elements, fallback_data)
    /\ pc' = "scraped"
    /\ UNCHANGED <<page_elements, dedup_input, unique_data, odds_vars, name_vars, id_vars, group_vars, line_vars,
                   io_vars>>

\* all_odds_data = remove_duplicate_drivers(all_odds_data) after the scrape
RemoveDuplicatesOfScraped ==
    /\ pc = "scraped"
    /\ dedup_input' = scraped_data
    /\ unique_data' = remove_duplicate_drivers(scraped_data)
    /\ pc' = "tournament"
    /\ UNCHANGED <<page_elements, collected_data, scraped_data, odds_vars, name_vars, id_vars, group_vars, line_vars,
                   io_vars>>

NextDedup == RemoveDuplicateDrivers \/ ScrapeChampionshipOdds \/ RemoveDuplicatesOfScraped

SpecDedup == InitDedup /\ [][NextDedup]_vars

-----------------------------------------------------------------------------
(* SevenDigitIDGenerator *)

MinId == 1000000

MaxId == 9999999

\* the range check of __init__ and reset
valid_start_id_exclusive(start_id) == MinId < start_id /\ start_id < MaxId

valid_start_id(start_id) == MinId <= start_id /\ start_id <= MaxId

\* the overflow check of get_next_id, made on the incremented _current_id
id_overflows_at_max(incremented_id) == incremented_id >= MaxId

id_overflows(incremented_id) == incremented_id > MaxId

\* the _current_id that reset sets
reset_current_id_unshifted(start_id) == start_id

reset_current_id(start_id) == start_id - 1

StartIds ==
    {0, 5000000} \cup ((MinId - IdMargin)..(MinId + IdMargin))
                \cup ((MaxId - IdMargin)..(MaxId + IdMargin))

InitIds ==
    /\ pc = "start"
    /\ IdsIdle
    /\ GroupsIdle
    /\ LinesIdle
    /\ OddsIdle
    /\ NamesIdle
    /\ DedupIdle
    /\ IoIdle

\* SevenDigitIDGenerator(start_id)
ConstructGenerator ==
    /\ generator = "none"
    /\ last_call = NoCall
    /\ \E start \in StartIds :
           IF valid_start_id(start)
           THEN /\ generator' = "live"
                /\ constructed_start' = start
                /\ current_id' = start - 1
                /\ last_call' = [op |-> "__init__", outcome |-> "returned",
                                 arg |-> start, before |-> 0, value |-> 0]
           ELSE /\ last_call' = [op |-> "__init__", outcome |-> "ValueError",
                                 arg |-> start, before |-> 0, value |-> 0]
                /\ UNCHANGED <<generator, constructed_start, current_id>>
    /\ UNCHANGED <<pc, issued, id_calls, all_issued, odds_vars, name_vars, dedup_vars, group_vars, line_vars,
                   io_vars>>

\* _current_id is incremented before the overflow check
GetNextId ==
    /\ generator = "live"
    /\ id_calls < MaxIdCalls
    /\ id_calls' = id_calls + 1
    /\ current_id' = current_id + 1
    /\ IF id_overflows(current_id + 1)
       THEN /\ last_call' = [op |-> "get_next_id", outcome |-> "OverflowError",
                             arg |-> 0, before |-> current_id, value |-> 0]
            /\ UNCHANGED <<issued, all_issued>>
       ELSE /\ last_call' = [op |-> "get_next_id", outcome |-> "returned",
                             arg |-> 0, before |-> current_id,
                             value |-> current_id + 1]
            /\ issued' = Append(issued, current_id + 1)
            /\ all_issued' = Append(all_issued, current_id + 1)
    /\ UNCHANGED <<pc, generator, constructed_start, odds_vars, name_vars, dedup_vars, group_vars, line_vars,
                   io_vars>>

GetCurrentId ==
    /\ generator = "live"
    /\ last_call' = [op |-> "get_current_id", outcome |-> "returned",
                     arg |-> 0, before |-> current_id, value |-> current_id]
    /\ UNCHANGED <<pc, generator, constructed_start, current_id, issued, id_calls, all_issued,
                   odds_vars, name_vars, dedup_vars, group_vars, line_vars, io_vars>>

ResetGenerator ==
    /\ generator = "live"
    /\ id_calls < MaxIdCalls
    /\ id_calls' = id_calls + 1
    /\ \E start \in StartIds :
           IF valid_start_id(start)
           THEN /\ constructed_start' = start
                /\ current_id' = reset_current_id(start)
                /\ issued' = <<>>
                /\ last_call' = [op |-> "reset", outcome |-> "returned",
                                 arg |-> start, before |-> current_id, value |-> 0]
           ELSE /\ last_call' = [op |-> "reset", outcome |-> "ValueError",
                                 arg |-> start, before |-> current_id, value |-> 0]
                /\ UNCHANGED <<constructed_start, current_id, issued>>
    /\ UNCHANGED <<pc, generator, all_issued, odds_vars, name_vars, dedup_vars, group_vars,
                   line_vars, io_vars>>

NextIds == ConstructGenerator \/ GetNextId \/ GetCurrentId \/ ResetGenerator

SpecIds == InitIds /\ [][NextIds]_vars

-----------------------------------------------------------------------------
(* scrape_conference_odds and scrape_division_odds *)

\* the teams list of scrape_conference_odds: one entry per team span that has
\* an odds span, texts read with get_text(strip=True)
conference_teams(team_spans, odds_spans) ==
    [i \in 1..(IF Len(team_spans) < Len(odds_spans)
               THEN Len(team_spans) ELSE Len(odds_spans)) |->
        [team |-> str_strip(team_spans[i]), odds |-> str_strip(odds_spans[i])]]

\* the teams list of scrape_division_odds, whose names are cleaned
division_teams_list(team_spans, odds_spans) ==
    [i \in 1..(IF Len(team_spans) < Len(odds_spans)
               THEN Len(team_spans) ELSE Len(odds_spans)) |->
        [team |-> clean_team_name(str_strip(team_spans[i])),
         odds |-> str_strip(odds_spans[i])]]

\* "Process odds for all teams"
process_team_odds(teams) ==
    [i \in 1..Len(teams) |->
        TheOne({[team |-> teams[i].team,
                 odds |-> processed,
                 processed_odds |-> processed,
                 original_odds |-> teams[i].odds] :
                    processed \in {process_odds(teams[i].odds)}})]

mid_point_rounded_up(total_teams) == (total_teams + 1) \div 2

mid_point(total_teams) == total_teams \div 2

NFC == <<"N", "F", "C">>

AFC == <<"A", "F", "C">>

scrape_conference_odds(team_spans, odds_spans) ==
    TheOne({<<[conference |-> NFC, teams |-> SubSeq(teams, 1, mid_point(Len(teams)))],
              [conference |-> AFC,
               teams |-> SubSeq(teams, mid_point(Len(teams)) + 1, Len(teams))]>> :
                teams \in {process_team_odds(conference_teams(team_spans, odds_spans))}})

title_separator == <<" ", "-", " ">>

\* text.split(" - ")[-1]: the separators are found from left to right without
\* overlap; start is where the piece after the last separator found begins
RECURSIVE last_piece_from(_, _, _)
last_piece_from(text, i, start) ==
    IF i + Len(title_separator) - 1 > Len(text) THEN SubSeq(text, start, Len(text))
    ELSE IF SubSeq(text, i, i + Len(title_separator) - 1) = title_separator
    THEN last_piece_from(text, i + Len(title_separator), i + Len(title_separator))
    ELSE last_piece_from(text, i + 1, start)

full_division_of(division_text) == last_piece_from(division_text, 1, 1)

Unknown == <<"U", "n", "k", "n", "o", "w", "n">>

\* "Parse conference and division"
parse_conference_last(full_division) ==
    TheOne({IF Len(parts) >= 2 THEN parts[Len(parts)] ELSE full_division :
                parts \in {str_split(full_division)}})

parse_conference(full_division) ==
    TheOne({IF Len(parts) >= 2 THEN parts[1] ELSE full_division :
                parts \in {str_split(full_division)}})

parse_division(full_division) ==
    TheOne({IF Len(parts) >= 2 THEN str_join(Tail(parts)) ELSE Unknown :
                parts \in {str_split(full_division)}})

parse_division_title(title) ==
    TheOne({[conference |-> parse_conference(full_division),
             division |-> parse_division(full_division)] :
                full_division \in {full_division_of(str_strip(title))}})

teams_per_division(total_teams, titles) ==
    IF titles # 0 THEN total_teams \div titles ELSE 0

\* teams[start_idx:end_idx] of title i (counted from 0), with the last
\* division cut like the others
division_slice_even(teams, titles, i) ==
    LET per == teams_per_division(Len(teams), titles)
        start_idx == i * per
        end_idx == IF start_idx + per < Len(teams) THEN start_idx + per ELSE Len(teams)
    IN  SubSeq(teams, start_idx + 1, end_idx)

\* teams[start_idx:end_idx] of title i (counted from 0)
division_slice(teams, titles, i) ==
    LET per == teams_per_division(Len(teams), titles)
        start_idx == i * per
        end_idx == IF i < titles - 1 THEN start_idx + per ELSE Len(teams)
    IN  SubSeq(teams, start_idx + 1, end_idx)

\* the loop over enumerate(division_titles) from title i on
RECURSIVE divisions_from(_, _, _, _)
divisions_from(teams, division_titles, i, divisions) ==
    IF i >= Len(division_titles) THEN divisions
    ELSE TheOne({TheOne({
             IF division_teams # <<>>
             THEN divisions_from(teams, division_titles, i + 1,
                      Append(divisions, [division |-> parsed.division,
                                         conference |-> parsed.conference,
                                         teams |-> division_teams]))
             ELSE divisions_from(teams, division_titles, i + 1, divisions) :
                 division_teams \in {division_slice(teams, Len(division_titles), i)}}) :
                 parsed \in {parse_division_title(division_titles[i + 1])}})

scrape_division_odds(division_titles, team_spans, odds_spans) ==
    TheOne({divisions_from(teams, division_titles, 0, <<>>) :
                teams \in {process_team_odds(division_teams_list(team_spans, odds_spans))}})

-----------------------------------------------------------------------------
(* Specification of the grouping scrapers *)

GroupTeamTexts == {<<"F", "i", "n", "i", "s", "h", " ", "E", "a", "g", "l", "e", "s">>,
                   <<"W", "i", "n", "n", "e", "r">>}

\* signed odds, text that int() rejects, and no text
GroupOddsTexts == {<<"+", "6", "5", "0">>, <<"E", "V", "E", "N">>, NoString}

GroupElements == [team : GroupTeamTexts, odds : GroupOddsTexts]

GroupBatches == UNION {[1..n -> GroupElements] : n \in 0..MaxBatch}

TitlePool == <<
    <<"N", "F", "L", " ", "-", " ", "N", "F", "C", " ", "E", "a", "s", "t">>,
    <<"W", "e", "s", "t">>,
    <<"A", "F", "C", " ", " ", "N", "o", "r", "t", "h", " ", " ", "D", "i", "v">>,
    <<"A", " ", "-", " ", " ", "B">>,
    NoString
>>

TitleLists ==
    {[i \in 1..k |-> TitlePool[((i - 1) % Len(TitlePool)) + 1]] : k \in 0..MaxTitles}

\* the 32 teams of the league, or 31 of them, under the 8 division titles
LeagueSizes == {31, 32}

LeagueTeams(n) ==
    [i \in 1..n |-> <<"T", "e", "a", "m", " ">> \o py_str(i)]

LeagueTitles == <<
    <<"N", "F", "C", " ", "E", "a", "s", "t">>, <<"N", "F", "C", " ", "N", "o", "r", "t", "h">>,
    <<"N", "F", "C", " ", "S", "o", "u", "t", "h">>, <<"N", "F", "C", " ", "W", "e", "s", "t">>,
    <<"A", "F", "C", " ", "E", "a", "s", "t">>, <<"A", "F", "C", " ", "N", "o", "r", "t", "h">>,
    <<"A", "F", "C", " ", "S", "o", "u", "t", "h">>, <<"A", "F", "C", " ", "W", "e", "s", "t">>
>>

\* the event_type scrape_draftkings_odds routes on
EventTypes == {"conference", "division", "championship"}

InitGroups ==
    /\ pc \in EventTypes
    /\ \/ \E batch \in GroupBatches, missing \in 0..1 :
              /\ missing <= Len(batch)
              /\ page_team_spans = [i \in 1..Len(batch) |-> batch[i].team]
              /\ page_odds_spans = [i \in 1..(Len(batch) - missing) |-> batch[i].odds]
              /\ page_division_titles \in (IF pc = "division" THEN TitleLists ELSE {<<>>})
       \/ \E n \in LeagueSizes :
              /\ page_team_spans = LeagueTeams(n)
              /\ page_odds_spans = [i \in 1..n |-> <<"+", "6", "5", "0">>]
              /\ page_division_titles = (IF pc = "division" THEN LeagueTitles ELSE <<>>)
    /\ conference_result = <<>>
    /\ parsed_labels = <<>>
    /\ division_result = <<>>
    /\ OddsIdle
    /\ NamesIdle
    /\ DedupIdle
    /\ IdsIdle
    /\ LinesIdle
    /\ IoIdle

ScrapeConferenceOdds ==
    /\ pc = "conference"
    /\ conference_result' = scrape_conference_odds(page_team_spans, page_odds_spans)
    /\ pc' = "conference_done"
    /\ UNCHANGED <<page_team_spans, page_odds_spans, page_division_titles,
                   parsed_labels, division_result,
                   odds_vars, name_vars, dedup_vars, id_vars, line_vars, io_vars>>

ScrapeDivisionOdds ==
    /\ pc = "division"
    /\ parsed_labels' = [i \in 1..Len(page_division_titles) |->
                            parse_division_title(page_division_titles[i])]
    /\ division_result' = scrape_division_odds(page_division_titles, page_team_spans,
                                               page_odds_spans)
    /\ pc' = "division_done"
    /\ UNCHANGED <<page_team_spans, page_odds_spans, page_division_titles,
                   conference_result,
                   odds_vars, name_vars, dedup_vars, id_vars, line_vars, io_vars>>

\* the (team, odds) pairs scrape_championship_odds zips from the two span lists
zipped_elements(team_spans, odds_spans) ==
    [i \in 1..(IF Len(team_spans) < Len(odds_spans)
               THEN Len(team_spans) ELSE Len(odds_spans)) |->
        [team |-> team_spans[i], odds |-> odds_spans[i]]]

ScrapeChampionshipBatch ==
    /\ pc = "championship"
    /\ page_elements' = zipped_elements(page_team_spans, page_odds_spans)
    /\ \E fallback_data \in FallbackChoices(page_elements') :
           /\ collected_data' = collect_odds_data(page_elements', fallback_data)
           /\ scraped_data' = scrape_championship_odds(page_elements', fallback_data)
    /\ pc' = "championship_done"
    /\ UNCHANGED <<dedup_input, unique_data, group_vars,
                   odds_vars, name_vars, id_vars, line_vars, io_vars>>

NextGroups == ScrapeConferenceOdds \/ ScrapeDivisionOdds \/ ScrapeChampionshipBatch

SpecGroups == InitGroups /\ [][NextGroups]_vars

-----------------------------------------------------------------------------
(* Betting lines of scrape_multi_line_tournament *)

top_2_patterns == <<
    <<"w", "i", "n", "n", "e", "r">>,
    <<"w", "i", "n">>,
    <<"c", "h", "a", "m", "p", "i", "o", "n">>,
    <<"a", "m", "r", "a", "c", "e", " ", "w", "i", "n", "n", "e", "r">>,
    <<"r", "a", "c", "e", " ", "w", "i", "n", "n", "e", "r">>,
    <<"a", "m", "r", "a", "c", "e">>
>>

top_4_patterns == <<
    <<"w", "i", "n", "n", "e", "r">>,
    <<"w", "i", "n">>,
    <<"c", "h", "a", "m", "p", "i", "o", "n">>,
    <<"a", "m", "r", "a", "c", "e", " ", "w", "i", "n", "n", "e", "r">>,
    <<"r", "a", "c", "e", " ", "w", "i", "n", "n", "e", "r">>,
    <<"t", "o", "p", " ", "2">>,
    <<"t", "o", "p", "2">>,
    <<"p", "o", "d", "i", "u", "m">>,
    <<"a", "m", "r", "a", "c", "e">>
>>

top_5_patterns == <<
    <<"w", "i", "n", "n", "e", "r">>,
    <<"w", "i", "n">>,
    <<"c", "h", "a", "m", "p", "i", "o", "n">>,
    <<"a", "m", "r", "a", "c", "e", " ", "w", "i", "n", "n", "e", "r">>,
    <<"r", "a", "c", "e", " ", "w", "i", "n", "n", "e", "r">>,
    <<"t", "o", "p", " ", "2">>,
    <<"t", "o", "p", "2">>,
    <<"p", "o", "d", "i", "u", "m">>,
    <<"t", "o", "p", " ", "4">>,
    <<"t", "o", "p", "4">>,
    <<"a", "m", "r", "a", "c", "e">>
>>

top_10_patterns == <<
    <<"w", "i", "n", "n", "e", "r">>,
    <<"w", "i", "n">>,
    <<"c", "h", "a", "m", "p", "i", "o", "n">>,
    <<"a", "m", "r", "a", "c", "e", " ", "w", "i", "n", "n", "e", "r">>,
    <<"r", "a", "c", "e", " ", "w", "i", "n", "n", "e", "r">>,
    <<"t", "o", "p", " ", "2">>,
    <<"t", "o", "p", "2">>,
    <<"p", "o", "d", "i", "u", "m">>,
    <<"t", "o", "p", " ", "4">>,
    <<"t", "o", "p", "4">>,
    <<"t", "o", "p", " ", "5">>,
    <<"t", "o", "p", "5">>,
    <<"a", "m", "r", "a", "c", "e">>
>>

\* exclusion_patterns.get(line_name, [])
exclusion_patterns(line_name) ==
    CASE line_name = "Top 2" -> top_2_patterns
      [] line_name = "Top 4" -> top_4_patterns
      [] line_name = "Top 5" -> top_5_patterns
      [] line_name = "Top 10" -> top_10_patterns
      [] OTHER -> <<>>

\* the tournament_indicators of filter_odds_by_betting_line
other_tournament_indicators == <<
    <<"l", "a", "s", " ", "v", "e", "g", "a", "s">>,
    <<"m", "i", "a", "m", "i">>,
    <<"m", "o", "n", "a", "c", "o">>,
    <<"s", "i", "l", "v", "e", "r", "s", "t", "o", "n", "e">>,
    <<"s", "p", "a">>,
    <<"m", "o", "n", "z", "a">>
>>

\* should_exclude, with the check for entries of a different tournament left out
should_exclude_by_pattern_only(entry, line_name) ==
    \E team_name \in {str_lower(entry.team)} :
        contains_any(team_name, exclusion_patterns(line_name))

\* should_exclude of one entry
should_exclude(entry, line_name) ==
    \E team_name \in {str_lower(entry.team)} :
        \/ contains_any(team_name, exclusion_patterns(line_name))
        \/ contains_any(team_name, other_tournament_indicators)

\* the entry appended to filtered_data for an entry that is kept
filtered_entry(entry) ==
    IF entry.odds = NoString \/ entry.original_odds = NoString
    THEN [team |-> entry.team, odds |-> NoString, original_odds |-> NoString]
    ELSE entry

\* the loop over odds_data from entry i on
RECURSIVE filter_from(_, _, _, _)
filter_from(odds_data, line_name, i, filtered_data) ==
    IF i > Len(odds_data) THEN filtered_data
    ELSE IF should_exclude(odds_data[i], line_name)
    THEN filter_from(odds_data, line_name, i + 1, filtered_data)
    ELSE filter_from(odds_data, line_name, i + 1,
                     Append(filtered_data, filtered_entry(odds_data[i])))

filter_odds_by_betting_line(odds_data, line_name) ==
    IF odds_data = <<>> THEN <<>> ELSE filter_from(odds_data, line_name, 1, <<>>)

\* no "removed" count is logged for an empty list
NotReported == -1

\* the count in the log line "Filtered ...: ... (removed ... entries)"
removed_count(odds_data, filtered_data) ==
    IF odds_data = <<>> THEN NotReported ELSE Len(odds_data) - Len(filtered_data)

\* entries with empty odds appended for the players of missing_players
RECURSIVE append_missing(_, _)
append_missing(all_odds_data, missing_players) ==
    IF missing_players = {} THEN all_odds_data
    ELSE LET player == CHOOSE p \in missing_players : TRUE
         IN  append_missing(Append(all_odds_data,
                                   [team |-> player, odds |-> NoString,
                                    original_odds |-> NoString]),
                            missing_players \ {player})

\* Python's None
None == <<"None">>

\* entry.get(key, default)
entry_get(entry, key, default) == IF key \in DOMAIN entry THEN entry[key] ELSE default

\* the loop over betting_lines from line k on, counting as existing only the
\* players whose entry has odds
RECURSIVE ensure_from_with_odds(_, _, _, _)
ensure_from_with_odds(all_odds_data, all_players, betting_lines, k) ==
    IF k > Len(betting_lines) THEN all_odds_data
    ELSE LET existing_players ==
                 {entry_get(all_odds_data[i], "team", None) :
                     i \in {j \in 1..Len(all_odds_data) :
                               entry_get(all_odds_data[j], "odds", NoString) # NoString}}
             missing_players == all_players \ existing_players
         IN  ensure_from_with_odds(append_missing(all_odds_data, missing_players),
                                   all_players, betting_lines, k + 1)

\* the loop over betting_lines from line k on
RECURSIVE ensure_from(_, _, _, _)
ensure_from(all_odds_data, all_players, betting_lines, k) ==
    IF k > Len(betting_lines) THEN all_odds_data
    ELSE LET existing_players ==
                 {entry_get(all_odds_data[i], "team", None) :
                     i \in {j \in 1..Len(all_odds_data) :
                               entry_get(all_odds_data[j], "team", None) \in all_players}}
             missing_players == all_players \ existing_players
         IN  ensure_from(append_missing(all_odds_data, missing_players), all_players,
                         betting_lines, k + 1)

ensure_all_players_have_entries(all_odds_data, betting_lines) ==
    IF all_odds_data = <<>> THEN all_odds_data
    ELSE ensure_from(all_odds_data,
                     {entry_get(all_odds_data[i], "team", NoString) :
                         i \in 1..Len(all_odds_data)},
                     betting_lines, 1)

betting_lines_of(tournament_type) ==
    CASE tournament_type = "auto_racing" -> <<"Winner", "Top 2", "Top 4">>
      [] tournament_type = "golf" -> <<"Winner", "Top 5", "Top 10">>
      [] OTHER -> <<"Winner">>

\* "Create separate tournaments based on tournament type with filtered data"
create_tournaments(tournament_type, all_odds_data) ==
    IF tournament_type \in {"auto_racing", "golf"}
    THEN TheOne({[k \in 1..Len(betting_lines_of(tournament_type)) |->
                    TheOne({[line_name |-> betting_lines_of(tournament_type)[k],
                             odds_data |-> filtered_data,
                             removed |-> removed_count(ensured, filtered_data)] :
                                filtered_data \in {filter_odds_by_betting_line(ensured,
                                                      betting_lines_of(tournament_type)[k])}})] :
                    ensured \in {ensure_all_players_have_entries(all_odds_data,
                                     betting_lines_of(tournament_type))}})
    ELSE <<[line_name |-> "Winner", odds_data |-> all_odds_data, removed |-> NotReported]>>

-----------------------------------------------------------------------------
(* Specification of the betting lines *)

\* names as remove_duplicate_drivers leaves them
RosterNames == {<<"L", "a", "n", "d", "o", " ", "N", "o", "r", "r", "i", "s">>,
                <<"E", "d", "w", "i", "n", " ", "D", "i", "a", "z">>,
                <<"M", "i", "a", "m", "i", " ", "H", "e", "a", "t">>,
                <<"b", "o", "b">>}

RosterEntries ==
    {[team |-> name, odds |-> process_odds(<<"+", "6", "5", "0">>), original_odds |-> <<"+", "6", "5", "0">>] :
        name \in RosterNames}
    \cup {[team |-> name, odds |-> NoString, original_odds |-> NoString] : name \in RosterNames}

\* lists without a repeated name
Rosters ==
    {roster \in UNION {[1..n -> RosterEntries] : n \in 0..MaxRoster} :
        \A i, j \in 1..Len(roster) : i # j => roster[i].team # roster[j].team}

\* entries for ensure_all_players_have_entries: with odds, without odds, and
\* without the 'team' key that the function reads with entry.get
EnsureEntries ==
    {[team |-> <<"L", "a", "n", "d", "o", " ", "N", "o", "r", "r", "i", "s">>,
      odds |-> <<"+", "4", "8", "5">>, original_odds |-> <<"+", "6", "5", "0">>],
     [team |-> <<"b", "o", "b">>, odds |-> NoString, original_odds |-> NoString],
     [odds |-> <<"+", "4", "8", "5">>, original_odds |-> <<"+", "6", "5", "0">>]}

EnsureInputs == UNION {[1..n -> EnsureEntries] : n \in 0..MaxEnsure}

\* what detect_tournament_type returns
TournamentTypes == {"golf", "auto_racing", "championship"}

InitLines ==
    /\ pc = "start"
    /\ roster_type \in TournamentTypes
    /\ roster_data \in Rosters
    /\ ensure_input \in EnsureInputs
    /\ ensure_lines = <<>>
    /\ ensured_data = <<>>
    /\ line_tournaments = <<>>
    /\ OddsIdle
    /\ NamesIdle
    /\ DedupIdle
    /\ IdsIdle
    /\ GroupsIdle
    /\ IoIdle

CreateTournaments ==
    /\ pc = "start"
    /\ line_tournaments' = create_tournaments(roster_type, roster_data)
    /\ pc' = "lines_done"
    /\ UNCHANGED <<roster_type, roster_data, ensure_input, ensure_lines, ensured_data,
                   odds_vars, name_vars, dedup_vars, id_vars, group_vars, io_vars>>

\* a call of ensure_all_players_have_entries
EnsureAllPlayersHaveEntries ==
    /\ pc = "start"
    /\ \E betting_lines \in {<<>>, betting_lines_of(roster_type)} :
           /\ ensure_lines' = betting_lines
           /\ ensured_data' = ensure_all_players_have_entries(ensure_input, betting_lines)
    /\ pc' = "ensured"
    /\ UNCHANGED <<roster_type, roster_data, ensure_input, line_tournaments,
                   odds_vars, name_vars, dedup_vars, id_vars, group_vars, io_vars>>

NextLines == CreateTournaments \/ EnsureAllPlayersHaveEntries

SpecLines == InitLines /\ [][NextLines]_vars

-----------------------------------------------------------------------------
(* Properties of the odds transformer *)

Seq1(c) == <<c>>

OtherSign(c) == IF c = "+" THEN "-" ELSE "+"

Minimum(a, b) == IF a <= b THEN a ELSE b

\* magnitude part of a result of the form sign + digits
ResultMagnitude(result) == Tail(result)

\* C1: for every odds string sign + digits, the magnitude of the result of
\* process_odds has last digit 0 or 5 (is a multiple of 5) and is at most 20000.
OddsOnGrid ==
    (pc = "done" /\ IsWellFormedOdds(odds_str)) =>
        LET mag == ResultMagnitude(odds_result)
        IN  /\ Len(odds_result) >= 2
            /\ odds_result[1] \in Signs
            /\ \A i \in 1..Len(mag) : mag[i] \in DigitChars
            /\ mag[Len(mag)] \in {"0", "5"}
            /\ DecimalValue(mag) % 5 = 0
            /\ DecimalValue(mag) <= 20000

OddsOnGridWitness ==
    /\ pc = "done"
    /\ odds_str = <<"+", "6", "5", "0">>
    /\ odds_result = <<"+", "4", "8", "5">>

\* C2: for sign + digits of magnitude m, the result is the original sign
\* followed by min(20000, r - (r mod 5)) with r = (m * 3) div 4.
OddsClosedForm ==
    (pc = "done" /\ IsWellFormedOdds(odds_str)) =>
        LET m == DecimalValue(Tail(odds_str))
            r == (m * 3) \div 4
        IN  odds_result = Seq1(odds_str[1]) \o py_str(Minimum(20000, r - (r % 5)))

\* the vectors of test_new_odds_calculation quoted by the claim
OddsVector(in, out) == odds_str = in => odds_result = out

OddsTestVectors ==
    pc = "done" =>
        /\ OddsVector(<<"+", "4", "7", "5">>, <<"+", "3", "5", "5">>)
        /\ OddsVector(<<"+", "6", "5", "0">>, <<"+", "4", "8", "5">>)
        /\ OddsVector(<<"+", "7", "8", "4">>, <<"+", "5", "8", "5">>)
        /\ OddsVector(<<"+", "4", "5", "6">>, <<"+", "3", "4", "0">>)
        /\ OddsVector(<<"-", "1", "2", "0", "0">>, <<"-", "9", "0", "0">>)
        /\ OddsVector(<<"+", "2", "5", "0", "0", "0">>, <<"+", "1", "8", "7", "5", "0">>)
        /\ OddsVector(<<"+", "3", "0", "0", "0", "0">>, <<"+", "2", "0", "0", "0", "0">>)

OddsReduceRoundCap == OddsClosedForm /\ OddsTestVectors

OddsReduceRoundCapWitness ==
    /\ pc = "done"
    /\ odds_str = <<"+", "7", "8", "4">>
    /\ odds_result = <<"+", "5", "8", "5">>

\* C3: process_odds returns its input unchanged for every input that is not
\* exactly one sign character followed by decimal digits.
MalformedOddsReturnedUnchanged ==
    (pc = "done" /\ ~IsWellFormedOdds(odds_str)) => odds_result = odds_str

\* C4: '+' + d and '-' + d give the same magnitude for every digit string d,
\* and a reduction above 20000 is clamped to 20000 under either sign.
OddsSignSymmetric ==
    (pc = "done" /\ IsWellFormedOdds(odds_str)) =>
        LET d == Tail(odds_str)
            mirrored == process_odds(Seq1(OtherSign(odds_str[1])) \o d)
        IN  /\ odds_result[1] = odds_str[1]
            /\ mirrored[1] = OtherSign(odds_str[1])
            /\ ResultMagnitude(odds_result) = ResultMagnitude(mirrored)
            /\ (reduce_by_quarter(DecimalValue(d)) > OddsCap =>
                    ResultMagnitude(odds_result) = py_str(OddsCap))

OddsSignSymmetricWitness ==
    /\ pc = "done"
    /\ odds_str = <<"-", "3", "0", "0", "0", "0">>
    /\ odds_result = <<"-", "2", "0", "0", "0", "0">>

-----------------------------------------------------------------------------
(* Properties of the deduplicator *)

AfterRemoveDuplicates == pc \in {"deduplicated", "tournament"}

\* normalized name of every entry given to remove_duplicate_drivers
InputNames == [k \in 1..Len(dedup_input) |-> normalize_driver_name(dedup_input[k].team)]

\* position of the first entry of a list of names that carries the name
FirstAt(names, name) == SetMin({k \in 1..Len(names) : names[k] = name})

NoSharedName(records) ==
    \A i, j \in 1..Len(records) : i # j => records[i].team # records[j].team

\* the records keep the order in which their names first occur among names
FirstOccurrenceOrder(records, names) ==
    /\ \A i \in 1..Len(records) : \E k \in 1..Len(names) : names[k] = records[i].team
    /\ \A i, j \in 1..Len(records) :
           i < j => FirstAt(names, records[i].team) < FirstAt(names, records[j].team)

CollectedNames == [k \in 1..Len(collected_data) |-> collected_data[k].team]

\* C5: remove_duplicate_drivers and the final deduplication pass of
\* scrape_championship_odds return a list no longer than their input, with no
\* two records of the same name, in the order of first occurrence in the input.
DedupUniqueInOrder ==
    /\ AfterRemoveDuplicates =>
           LET names == InputNames
           IN  /\ Len(unique_data) <= Len(dedup_input)
               /\ NoSharedName(unique_data)
               /\ FirstOccurrenceOrder(unique_data, names)
    /\ pc = "scraped" =>
           LET names == CollectedNames
           IN  /\ Len(scraped_data) <= Len(collected_data)
               /\ NoSharedName(scraped_data)
               /\ FirstOccurrenceOrder(scraped_data, names)

DedupUniqueInOrderWitness ==
    /\ pc = "deduplicated"
    /\ Len(dedup_input) = 3
    /\ Len(unique_data) = 2
    /\ dedup_input[1].team # dedup_input[3].team
    /\ LET names == InputNames
       IN  /\ names[1] = names[3]
           /\ names[2] \notin {names[1], NoString}
           /\ unique_data[1].team = names[1]
           /\ unique_data[2].team = names[2]

\* normalized name of every page element as Method 1 computes it
ElementNames ==
    [k \in 1..Len(page_elements) |->
        normalize_driver_name(clean_team_name(str_strip(page_elements[k].team)))]

\* the record Method 1 builds for page element k, whose normalized name is name
ElementRecord(k, name) ==
    LET original == str_strip(page_elements[k].odds)
    IN  [team |-> name,
         odds |-> IF original = NoString THEN NoString ELSE process_odds(original),
         original_odds |-> original]

\* every non-empty name among the first upto names is on exactly one record
EachNameOnce(records, names, upto) ==
    \A k \in 1..Len(names) :
        (k <= upto /\ names[k] # NoString) =>
            Cardinality({i \in 1..Len(records) : records[i].team = names[k]}) = 1

-----------------------------------------------------------------------------
(* Properties of the name cleaner and normalizer *)

\* C7: applying normalize_driver_name to its own output returns that output
\* unchanged.
NormalizeIdempotent ==
    pc = "done" => renorm_result = norm_result

\* C8: for every non-empty label the cleaned name is non-empty; a cleaning that
\* leaves fewer than 2 characters is replaced by the trimmed, capitalized label.
CleanedNameNonEmpty ==
    (pc \in {"cleaned", "normalized", "done"} /\ raw_label # NoString) =>
        /\ clean_result # NoString
        /\ Len(clean_result) < 2 => clean_result = capitalize_words(str_strip(raw_label))

\* C9: the result of clean_team_name neither starts with a noise prefix nor
\* ends with a noise suffix, compared case-insensitively.
NoNoiseAtEnds ==
    pc \in {"cleaned", "normalized", "done"} =>
        /\ \A k \in 1..Len(unwanted_prefixes) :
               ~str_startswith(str_lower(clean_result), str_lower(unwanted_prefixes[k]))
        /\ \A k \in 1..Len(unwanted_suffixes) :
               ~str_endswith(str_lower(clean_result), str_lower(unwanted_suffixes[k]))

\* C10: a normalized name is made of Title-Case tokens separated by single
\* spaces: the first roster entry contained in the cleaned name, in Title
\* Case, or else the cleaned name in Title Case.
NormalizedTitleCase ==
    pc \in {"normalized", "done"} =>
        LET driver == first_driver_in(str_lower(clean_result))
        IN  /\ norm_result = capitalize_words(norm_result)
            /\ norm_result = IF driver # 0 THEN capitalize_words(f1_drivers[driver])
                             ELSE capitalize_words(clean_result)

-----------------------------------------------------------------------------
(* Properties of the ID generator *)

\* C18: the n-th id returned since construction with start s is s + n - 1, and
\* get_next_id raises OverflowError, returning nothing, exactly when the
\* incremented id would exceed 9999999.
IdsSequentialUntilOverflow ==
    /\ \A n \in 1..Len(issued) : issued[n] = constructed_start + n - 1
    /\ last_call.op = "get_next_id" =>
           IF last_call.before + 1 > 9999999
           THEN last_call.outcome = "OverflowError"
           ELSE /\ last_call.outcome = "returned"
                /\ last_call.value = last_call.before + 1
                /\ issued # <<>>
                /\ issued[Len(issued)] = last_call.value

IdsSequentialUntilOverflowWitness ==
    /\ constructed_start = 9999998
    /\ issued = <<9999998, 9999999>>
    /\ last_call.op = "get_next_id"
    /\ last_call.outcome = "OverflowError"

\* C19: get_current_id returns the last id returned by get_next_id, or
\* start - 1 when none was returned yet, also after calls that overflowed.
CurrentIdIsLastIssued ==
    last_call.op = "get_current_id" =>
        last_call.value = IF issued = <<>> THEN constructed_start - 1
                          ELSE issued[Len(issued)]

\* C20: construction fails with an error and leaves no generator exactly when
\* start_id is outside 1000000..9999999.
ConstructionChecksRange ==
    last_call.op = "__init__" =>
        IF 1000000 <= last_call.arg /\ last_call.arg <= 9999999
        THEN /\ last_call.outcome = "returned"
             /\ generator = "live"
             /\ constructed_start = last_call.arg
        ELSE /\ last_call.outcome = "ValueError"
             /\ generator = "none"

ConstructionChecksRangeWitness ==
    /\ last_call.op = "__init__"
    /\ last_call.arg = 10000000
    /\ last_call.outcome = "ValueError"
    /\ generator = "none"

-----------------------------------------------------------------------------
(* Properties of the grouping scrapers *)

\* the (team text, odds text) records read from the page, in page order
PageRecords ==
    [i \in 1..Minimum(Len(page_team_spans), Len(page_odds_spans)) |->
        [team |-> str_strip(page_team_spans[i]), odds |-> str_strip(page_odds_spans[i])]]

\* odds text that is empty or that int() rejects once the signs are removed
CannotParse(text) ==
    \/ text = NoString
    \/ py_int(str_remove(str_remove(text, "+"), "-")) = ValueError

\* the team records of all groups, in output order
RECURSIVE Flatten(_)
Flatten(groups) ==
    IF groups = <<>> THEN <<>> ELSE Head(groups).teams \o Flatten(Tail(groups))

\* record i of a flat output list is the record of page record i
CarriesPageRecord(out, i, team) ==
    /\ i <= Len(out)
    /\ out[i].team = team
    /\ out[i].original_odds = PageRecords[i].odds
    /\ out[i].odds = IF CannotParse(PageRecords[i].odds) THEN PageRecords[i].odds
                     ELSE process_odds(PageRecords[i].odds)

ChampionshipName(i) == normalize_driver_name(clean_team_name(PageRecords[i].team))

\* C11: a record whose odds text cannot be parsed gets exactly one output
\* record in the conference, division and championship pipelines, with the
\* original text as its odds, and the other records are processed as usual.
UnparsedOddsNeverDropped ==
    /\ pc = "conference_done" =>
           LET out == Flatten(conference_result)
           IN  /\ Len(out) = Len(PageRecords)
               /\ \A i \in 1..Len(PageRecords) :
                      CarriesPageRecord(out, i, PageRecords[i].team)
    /\ pc = "division_done" =>
           LET out == Flatten(division_result)
           IN  (\E i \in 1..Len(PageRecords) : CannotParse(PageRecords[i].odds)) =>
                   /\ Len(out) = Len(PageRecords)
                   /\ \A i \in 1..Len(PageRecords) :
                          CarriesPageRecord(out, i, clean_team_name(PageRecords[i].team))
    /\ pc = "championship_done" =>
           \A i \in 1..Minimum(Len(PageRecords), default_entry_limit) :
               CannotParse(PageRecords[i].odds) =>
                   \E name \in {ChampionshipName(i)} :
                       /\ Cardinality({j \in 1..Len(scraped_data) :
                                          scraped_data[j].team = name}) = 1
                       /\ (\A h \in 1..(i - 1) : ChampionshipName(h) # name) =>
                              \E j \in 1..Len(scraped_data) :
                                  /\ scraped_data[j].team = name
                                  /\ scraped_data[j].odds = PageRecords[i].odds

\* C12: the conference list has exactly two groups, the first with the first
\* len // 2 records and the second with the rest, so that their concatenation
\* is the input list and the first group is the smaller one for odd length
\* (16 and 16 for 32 records, 15 and 16 for 31).
ConferenceSplitAtHalf ==
    pc = "conference_done" =>
        /\ Len(conference_result) = 2
        /\ LET first == conference_result[1].teams
               second == conference_result[2].teams
               n == Len(PageRecords)
           IN  /\ Len(first) = n \div 2
               /\ Len(second) = n - (n \div 2)
               /\ Len(first) <= Len(second)
               /\ \A i \in 1..n :
                      CarriesPageRecord(first \o second, i, PageRecords[i].team)
               /\ n = 32 => Len(first) = 16 /\ Len(second) = 16
               /\ n = 31 => Len(first) = 15 /\ Len(second) = 16

ConferenceSplitAtHalfWitness ==
    /\ pc = "conference_done"
    /\ Len(page_team_spans) = 31
    /\ Len(conference_result[1].teams) = 15
    /\ Len(conference_result[2].teams) = 16
    /\ conference_result[2].teams[1].team = <<"T", "e", "a", "m", " ", "1", "6">>

\* C13: every team record of the flat list is in exactly one division of the
\* output, in input order, for every number of division titles, 0 included.
DivisionsPartitionTeams ==
    pc = "division_done" =>
        LET out == Flatten(division_result)
        IN  /\ Len(out) = Len(PageRecords)
            /\ \A i \in 1..Len(PageRecords) :
                   CarriesPageRecord(out, i, clean_team_name(PageRecords[i].team))

\* the slice of the flat list that title i of k (counted from 1) stands for
ExpectedSlice(out, k, i) ==
    LET per == Len(out) \div k
    IN  SubSeq(out, (i - 1) * per + 1, IF i < k THEN i * per ELSE Len(out))

\* the titles whose slice is not empty, in title order
KeptTitles(out, k) ==
    SelectSeq([i \in 1..k |-> i], LAMBDA i : ExpectedSlice(out, k, i) # <<>>)

\* C14: with k >= 1 titles and n records, title i (from 0) other than the last
\* gets the n // k records from offset i * (n // k), the last title gets all
\* the remaining records, and a title with an empty slice gives no division.
DivisionSlices ==
    (pc = "division_done" /\ Len(page_division_titles) >= 1) =>
        LET k == Len(page_division_titles)
            out == Flatten(division_result)
            kept == KeptTitles(out, k)
        IN  /\ Len(out) = Len(PageRecords)
            /\ \A i \in 1..Len(PageRecords) :
                   CarriesPageRecord(out, i, clean_team_name(PageRecords[i].team))
            /\ Len(division_result) = Len(kept)
            /\ \A j \in 1..Len(kept) :
                   /\ division_result[j].teams = ExpectedSlice(out, k, kept[j])
                   /\ division_result[j].teams # <<>>
                   /\ division_result[j].division = parsed_labels[kept[j]].division
                   /\ division_result[j].conference = parsed_labels[kept[j]].conference

DivisionSlicesWitness ==
    /\ pc = "division_done"
    /\ Len(page_division_titles) = 2
    /\ Len(PageRecords) = 3
    /\ Len(division_result) = 2
    /\ Len(division_result[1].teams) = 1
    /\ Len(division_result[2].teams) = 2

\* C15: for each division label (the title text after its last " - "), the
\* first whitespace-delimited token is the conference and the other tokens,
\* joined by one space, are the division name; a label with fewer than two
\* tokens gets the division name "Unknown".
DivisionLabelParsed ==
    pc = "division_done" =>
        /\ Len(parsed_labels) = Len(page_division_titles)
        /\ \A i \in 1..Len(page_division_titles) :
               LET tokens == str_split(full_division_of(str_strip(page_division_titles[i])))
               IN  IF Len(tokens) >= 2
                   THEN /\ parsed_labels[i].conference = tokens[1]
                        /\ \A c \in 1..Len(parsed_labels[i].conference) :
                               parsed_labels[i].conference[c] \notin Whitespace
                        /\ str_split(parsed_labels[i].division) = Tail(tokens)
                        /\ parsed_labels[i].division = str_join(Tail(tokens))
                   ELSE parsed_labels[i].division = <<"U", "n", "k", "n", "o", "w", "n">>

DivisionLabelParsedWitness ==
    /\ pc = "division_done"
    /\ Len(page_division_titles) >= 3
    /\ parsed_labels[1] = [conference |-> <<"N", "F", "C">>, division |-> <<"E", "a", "s", "t">>]
    /\ parsed_labels[2].division = <<"U", "n", "k", "n", "o", "w", "n">>
    /\ parsed_labels[3] = [conference |-> <<"A", "F", "C">>,
                           division |-> <<"N", "o", "r", "t", "h", " ", "D", "i", "v">>]

-----------------------------------------------------------------------------
(* Properties of the betting lines *)

\* the name contains a fragment that names another tournament
CrossContaminated(team) == contains_any(str_lower(team), other_tournament_indicators)

LineNames(tournament) ==
    {tournament.odds_data[j].team : j \in 1..Len(tournament.odds_data)}

\* C16: every entity of the deduplicated roster (other than the records of
\* another tournament, which C17 excludes) is in the output of every betting
\* line, with empty odds when it has no odds.
RosterInEveryLine ==
    pc = "lines_done" =>
        \A k \in 1..Len(line_tournaments) :
            \A i \in 1..Len(roster_data) :
                ~CrossContaminated(roster_data[i].team) =>
                    \E j \in 1..Len(line_tournaments[k].odds_data) :
                        /\ line_tournaments[k].odds_data[j].team = roster_data[i].team
                        /\ roster_data[i].odds = NoString =>
                               line_tournaments[k].odds_data[j].odds = NoString

-----------------------------------------------------------------------------
(* Payload building and submission to the CLM API *)

\* Python's None where a game id is expected
NoneId == -1

\* bool(value) of a game id
id_truthy(value) == value # NoneId /\ value # 0

\* a or b
py_or(a, b) == IF id_truthy(a) THEN a ELSE b

\* result.get(key)
dict_get(dict, key) == IF key \in DOMAIN dict THEN dict[key] ELSE NoneId

\* a dict without the keys that the code reads
NoDict == [message |-> 0]

\* a scrape result that is a dict, and one that is a list
as_dict(dict) == [is_dict |-> TRUE, dict |-> dict, list |-> <<>>]

as_list(list) == [is_dict |-> FALSE, dict |-> NoDict, list |-> list]

\* a response body that is a dict, and one that is a bare number
body_dict(dict) == [is_dict |-> TRUE, dict |-> dict, number |-> 0]

body_number(number) == [is_dict |-> FALSE, dict |-> NoDict, number |-> number]

\* a response body without a game id
NoBody == body_dict(NoDict)

\* len(obj): the number of keys of a dict, the number of items of a list
py_len(obj) == IF obj.is_dict THEN Cardinality(DOMAIN obj.dict) ELSE Len(obj.list)

\* the teams of all groups, in order
RECURSIVE teams_of_groups(_)
teams_of_groups(groups) ==
    IF groups = <<>> THEN <<>>
    ELSE Head(groups).teams \o teams_of_groups(Tail(groups))

\* what scrape_draftkings_odds returns for a page: a dict for conference and
\* division events, a list for the others
scrape_draftkings_odds(event_type, division_titles, team_spans, odds_spans) ==
    IF event_type = "conference"
    THEN TheOne({as_dict([event_type |-> "conference",
                          conferences |-> conferences,
                          validation |-> [expected_conferences |-> 2,
                                          found_conferences |-> Len(conferences),
                                          expected_teams_per_conference |-> 16,
                                          total_teams |-> Len(teams_of_groups(conferences))]]) :
                     conferences \in {scrape_conference_odds(team_spans, odds_spans)}})
    ELSE IF event_type = "division"
    THEN TheOne({as_dict([event_type |-> "division",
                          divisions |-> divisions,
                          validation |-> [expected_divisions |-> 8,
                                          found_divisions |-> Len(divisions),
                                          expected_teams_per_division |-> 4,
                                          total_teams |->
                                              Len(zipped_elements(team_spans, odds_spans))]]) :
                     divisions \in
                         {scrape_division_odds(division_titles, team_spans, odds_spans)}})
    ELSE as_list(scrape_championship_odds(zipped_elements(team_spans, odds_spans), <<>>))

\* the team entries that generate_payloads walks through, by event type
teams_of_event(odds_data) ==
    IF odds_data.is_dict /\ odds_data.dict.event_type = "conference"
    THEN teams_of_groups(odds_data.dict.conferences)
    ELSE IF odds_data.is_dict /\ odds_data.dict.event_type = "division"
    THEN teams_of_groups(odds_data.dict.divisions)
    ELSE odds_data.list

\* "NumTeams": len(odds_data)
num_teams_of(odds_data) == py_len(odds_data)

\* for team_data in odds_data: team_id = id_generator.get_next_id() and append
RECURSIVE assign_ids(_, _, _)
assign_ids(generator_id, teams, game_values) ==
    IF teams = <<>>
    THEN [outcome |-> "assigned", generator_id |-> generator_id, game_values |-> game_values]
    ELSE IF id_overflows(generator_id + 1)
    THEN [outcome |-> "OverflowError", generator_id |-> generator_id + 1,
          game_values |-> game_values]
    ELSE assign_ids(generator_id + 1, Tail(teams),
                    Append(game_values, [Id |-> generator_id + 1,
                                         TeamName |-> Head(teams).team,
                                         Odds |-> Head(teams).odds]))

\* for i, team in enumerate(teams_data, 1) of submit_game_odds in scrapper.py
enumerate_ids(teams_data) ==
    [i \in 1..Len(teams_data) |->
        [Id |-> i, TeamName |-> teams_data[i].team, Odds |-> teams_data[i].odds]]

NotBuilt == [status |-> 0, built |-> FALSE, NumTeams |-> 0, game_values |-> <<>>]

\* generate_payloads: the status of the answer and the two payloads
generate_payloads(start_id, odds_data) ==
    IF ~valid_start_id(start_id)
    THEN [NotBuilt EXCEPT !.status = 400]
    ELSE IF py_len(odds_data) = 0
    THEN [NotBuilt EXCEPT !.status = 200]
    ELSE TheOne({IF assigned.outcome = "OverflowError"
                 THEN [NotBuilt EXCEPT !.status = 500]
                 ELSE [status |-> 200, built |-> TRUE,
                       NumTeams |-> num_teams_of(odds_data),
                       game_values |-> assigned.game_values] :
                     assigned \in {assign_ids(start_id - 1, teams_of_event(odds_data), <<>>)}})

\* the state of the generator a betting line draws from, with a generator
\* made anew for every line
generator_of_line_fresh(start_id, generator_id) == start_id - 1

\* the state of the generator a betting line draws from: id_generator is made
\* once, before the loop over the tournaments
generator_of_line(start_id, generator_id) == generator_id

\* the loop over tournaments_data of generate_multi_line_payloads from
\* tournament k on
RECURSIVE multi_line_payloads_from(_, _, _, _, _)
multi_line_payloads_from(start_id, tournaments, k, generator_id, payloads) ==
    IF k > Len(tournaments) THEN [status |-> 200, payloads |-> payloads]
    ELSE IF tournaments[k].odds_data = <<>>
    THEN multi_line_payloads_from(start_id, tournaments, k + 1, generator_id, payloads)
    ELSE TheOne({
             IF assigned.outcome = "OverflowError"
             THEN [status |-> 500, payloads |-> <<>>]
             ELSE multi_line_payloads_from(start_id, tournaments, k + 1,
                      assigned.generator_id,
                      Append(payloads, [line_name |-> tournaments[k].line_name,
                                        NumTeams |-> Len(tournaments[k].odds_data),
                                        game_values |-> assigned.game_values])) :
                 assigned \in {assign_ids(generator_of_line(start_id, generator_id),
                                          tournaments[k].odds_data, <<>>)}})

\* generate_multi_line_payloads: the status of the answer and the payloads of
\* the betting lines
generate_multi_line_payloads(start_id, tournaments) ==
    IF ~valid_start_id(start_id) THEN [status |-> 400, payloads |-> <<>>]
    ELSE IF tournaments = <<>> THEN [status |-> 200, payloads |-> <<>>]
    ELSE multi_line_payloads_from(start_id, tournaments, 1, start_id - 1, <<>>)

\* game_id of the flask endpoints from the body of the InsertGame response
game_id_of(result) ==
    IF result.is_dict
    THEN py_or(py_or(dict_get(result.dict, "idGame"), dict_get(result.dict, "IdGame")),
               dict_get(result.dict, "id"))
    ELSE result.number

\* create_game of scrapper.py: the game id, or None on a status other than
\* 200 and on an exception; result.get of a body that is no dict raises
create_game(game_response) ==
    IF game_response.status # 200 THEN NoneId
    ELSE IF ~game_response.body.is_dict THEN NoneId
    ELSE py_or(dict_get(game_response.body.dict, "idGame"),
               dict_get(game_response.body.dict, "IdGame"))

\* a requests.post to InsertGame and one to InsertGameValuesTNT
insert_game_call(game_response) ==
    [endpoint |-> "InsertGame", idGame |-> NoneId, status |-> game_response.status,
     body |-> game_response.body]

insert_values_call(game_id, odds_status) ==
    [endpoint |-> "InsertGameValuesTNT", idGame |-> game_id, status |-> odds_status,
     body |-> NoBody]

\* the posts of one game: InsertGame, then InsertGameValuesTNT once the flask
\* endpoint has read a game id from a 200 response
posts_of_game(game_response, odds_status) ==
    IF game_response.status = 200
    THEN <<insert_game_call(game_response),
           insert_values_call(game_id_of(game_response.body), odds_status)>>
    ELSE <<insert_game_call(game_response)>>

\* the posts of one game of run_scraper of scrapper.py
posts_of_scraper_game(game_response, odds_status) ==
    IF id_truthy(create_game(game_response))
    THEN <<insert_game_call(game_response),
           insert_values_call(create_game(game_response), odds_status)>>
    ELSE <<insert_game_call(game_response)>>

-----------------------------------------------------------------------------
(* Specification of the payload builders and of the submission to the API *)

\* a page of n teams with odds
PayloadTeamSpans(n) == LeagueTeams(n)

PayloadOddsSpans(n) == [i \in 1..n |-> <<"+", "6", "5", "0">>]

PayloadTitles == <<LeagueTitles[1], LeagueTitles[5]>>

\* what the scrape of the requested URL returns
ScrapedResults ==
    {scrape_draftkings_odds(event_type, PayloadTitles, PayloadTeamSpans(n),
                            PayloadOddsSpans(n)) :
         event_type \in EventTypes, n \in 0..MaxPayloadTeams}

LineNamesOf == <<"Winner", "Top 2", "Top 4">>

LineTeams(n) ==
    [i \in 1..n |-> [team |-> LeagueTeams(n)[i], odds |-> <<"+", "4", "8", "5">>,
                     original_odds |-> <<"+", "6", "5", "0">>]]

\* what scrape_multi_line_tournament returns: three betting lines, each with
\* the entries that the filter left
MultiLineResults ==
    {[k \in 1..3 |-> [line_name |-> LineNamesOf[k], odds_data |-> LineTeams(sizes[k])]] :
         sizes \in [1..3 -> 0..MaxLineTeams]}

\* start_id of the request
RequestStartIds == {MinId - 1, MinId, MaxId - 1, MaxId}

\* responses of InsertGame: an exception of requests.post has status Unbound
GameResponses ==
    {[status |-> 200, body |-> body_dict([idGame |-> 77])],
     [status |-> 200, body |-> NoBody],
     [status |-> 200, body |-> body_number(80)],
     [status |-> 500, body |-> NoBody],
     [status |-> Unbound, body |-> NoBody]}

\* status of the response of InsertGameValuesTNT
OddsStatuses == {200, 500}

InitPayloads ==
    /\ pc = "start"
    /\ request_start_id \in RequestStartIds
    /\ \/ /\ scraped_odds_data \in ScrapedResults
          /\ tournaments_data = <<>>
       \/ /\ scraped_odds_data = as_list(<<>>)
          /\ tournaments_data \in MultiLineResults
    /\ endpoint_status = 0
    /\ payload_built = FALSE
    /\ payload_num_teams = 0
    /\ odds_submission_payload = <<>>
    /\ tournament_payloads = <<>>
    /\ api_calls = <<>>
    /\ assigner_current_id = 0
    /\ line_index = 0
    /\ RetryIdle
    /\ OddsIdle
    /\ NamesIdle
    /\ DedupIdle
    /\ IdsIdle
    /\ GroupsIdle
    /\ LinesIdle

\* POST /api/generate-payloads
GeneratePayloads ==
    /\ pc = "start"
    /\ \E answer \in {generate_payloads(request_start_id, scraped_odds_data)} :
           /\ endpoint_status' = answer.status
           /\ payload_built' = answer.built
           /\ payload_num_teams' = answer.NumTeams
           /\ odds_submission_payload' = answer.game_values
    /\ pc' = "generate_payloads_done"
    /\ UNCHANGED <<request_start_id, scraped_odds_data, tournaments_data,
                   tournament_payloads, api_calls, assigner_current_id, line_index,
                   retry_vars, odds_vars, name_vars, dedup_vars, id_vars, group_vars,
                   line_vars>>

\* POST /api/submit-complete with the two payloads of generate_payloads
SubmitComplete ==
    /\ pc = "generate_payloads_done"
    /\ \E game_response \in GameResponses, odds_status \in OddsStatuses :
           IF ~payload_built \/ odds_submission_payload = <<>>
           THEN /\ endpoint_status' = 400
                /\ UNCHANGED api_calls
           ELSE /\ api_calls' = api_calls \o posts_of_game(game_response, odds_status)
                /\ endpoint_status' =
                       IF game_response.status = Unbound THEN 500
                       ELSE IF game_response.status = 200 /\ odds_status = 200 THEN 200
                       ELSE 400
    /\ pc' = "submit_complete_done"
    /\ UNCHANGED <<request_start_id, scraped_odds_data, tournaments_data, payload_built,
                   payload_num_teams, odds_submission_payload, tournament_payloads,
                   assigner_current_id, line_index,
                   retry_vars, odds_vars, name_vars, dedup_vars, id_vars, group_vars,
                   line_vars>>

\* one configuration item of run_scraper of scrapper.py: the game payload,
\* create_game and submit_game_odds
RunScraper ==
    /\ pc = "start"
    /\ \E game_response \in GameResponses, odds_status \in OddsStatuses :
           LET teams_data == teams_of_event(scraped_odds_data)
           IN  IF teams_data = <<>>
               THEN UNCHANGED <<payload_built, payload_num_teams, odds_submission_payload,
                                api_calls>>
               ELSE /\ payload_built' = id_truthy(create_game(game_response))
                    /\ payload_num_teams' = Len(teams_data)
                    /\ odds_submission_payload' =
                           IF id_truthy(create_game(game_response))
                           THEN enumerate_ids(teams_data) ELSE <<>>
                    /\ api_calls' = api_calls \o posts_of_scraper_game(game_response, odds_status)
    /\ pc' = "run_scraper_done"
    /\ UNCHANGED <<request_start_id, scraped_odds_data, tournaments_data, endpoint_status,
                   tournament_payloads, assigner_current_id, line_index,
                   retry_vars, odds_vars, name_vars, dedup_vars, id_vars, group_vars,
                   line_vars>>

\* POST /api/generate-multi-line-payloads
GenerateMultiLinePayloads ==
    /\ pc = "start"
    /\ \E answer \in {generate_multi_line_payloads(request_start_id, tournaments_data)} :
           /\ endpoint_status' = answer.status
           /\ tournament_payloads' = answer.payloads
    /\ pc' = "generate_multi_line_payloads_done"
    /\ UNCHANGED <<request_start_id, scraped_odds_data, tournaments_data, payload_built,
                   payload_num_teams, odds_submission_payload, api_calls,
                   assigner_current_id, line_index,
                   retry_vars, odds_vars, name_vars, dedup_vars, id_vars, group_vars,
                   line_vars>>

\* POST /api/submit-all-individual-tournaments up to the loop over the
\* tournaments: the checks of the request, the scrape and the id generator
SubmitAllIndividualTournaments ==
    /\ pc = "start"
    /\ IF ~valid_start_id(request_start_id)
       THEN /\ endpoint_status' = 400
            /\ pc' = "submit_all_done"
            /\ UNCHANGED assigner_current_id
       ELSE IF tournaments_data = <<>>
       THEN /\ endpoint_status' = 200
            /\ pc' = "submit_all_done"
            /\ UNCHANGED assigner_current_id
       ELSE /\ assigner_current_id' = request_start_id - 1
            /\ pc' = "submit_all"
            /\ UNCHANGED endpoint_status
    /\ UNCHANGED <<request_start_id, scraped_odds_data, tournaments_data, payload_built,
                   payload_num_teams, odds_submission_payload, tournament_payloads,
                   api_calls, line_index,
                   retry_vars, odds_vars, name_vars, dedup_vars, id_vars, group_vars,
                   line_vars>>

\* one pass of the loop over the tournaments: the payloads of the betting
\* line, the post to InsertGame and the post to InsertGameValuesTNT
SubmitNextTournament ==
    /\ pc = "submit_all"
    /\ line_index < Len(tournaments_data)
    /\ line_index' = line_index + 1
    /\ \E game_response \in GameResponses, odds_status \in OddsStatuses :
           LET tournament == tournaments_data[line_index + 1]
               assigned == assign_ids(generator_of_line(request_start_id,
                                                        assigner_current_id),
                                      tournament.odds_data, <<>>)
           IN  IF tournament.odds_data = <<>>
               THEN UNCHANGED <<assigner_current_id, tournament_payloads, api_calls>>
               ELSE /\ assigner_current_id' = assigned.generator_id
                    /\ IF assigned.outcome = "OverflowError"
                       THEN UNCHANGED <<tournament_payloads, api_calls>>
                       ELSE /\ tournament_payloads' =
                                   Append(tournament_payloads,
                                          [line_name |-> tournament.line_name,
                                           NumTeams |-> Len(tournament.odds_data),
                                           game_values |-> assigned.game_values])
                            /\ api_calls' =
                                   api_calls \o posts_of_game(game_response, odds_status)
    /\ IF line_index + 1 = Len(tournaments_data)
       THEN pc' = "submit_all_done" /\ endpoint_status' = 200
       ELSE UNCHANGED <<pc, endpoint_status>>
    /\ UNCHANGED <<request_start_id, scraped_odds_data, tournaments_data, payload_built,
                   payload_num_teams, odds_submission_payload,
                   retry_vars, odds_vars, name_vars, dedup_vars, id_vars, group_vars,
                   line_vars>>

NextPayloads ==
    \/ GeneratePayloads
    \/ SubmitComplete
    \/ RunScraper
    \/ GenerateMultiLinePayloads
    \/ SubmitAllIndividualTournaments
    \/ SubmitNextTournament

SpecPayloads == InitPayloads /\ [][NextPayloads]_vars

-----------------------------------------------------------------------------
(* Specification of _post_with_retries *)

InitRetry ==
    /\ pc = "start"
    /\ max_retries \in 1..MaxRetries
    /\ post_outcomes = <<>>
    /\ last_exc = NoException
    /\ response = Unbound
    /\ retry_result = NoResult
    /\ PayloadIdle
    /\ OddsIdle
    /\ NamesIdle
    /\ DedupIdle
    /\ IdsIdle
    /\ GroupsIdle
    /\ LinesIdle

\* one pass of the loop: a requests.post and what follows it, with the
\* statements after the loop when the pass is the last one
PostAttempt ==
    /\ pc = "start"
    /\ Len(post_outcomes) < max_retries
    /\ \E outcome \in PostOutcomes :
           LET last_pass == Len(post_outcomes) + 1 = max_retries
               exc_now == IF outcome.kind = "exception" THEN outcome.exc ELSE last_exc
               response_now == IF outcome.kind = "response" THEN outcome.status
                               ELSE response
           IN  /\ post_outcomes' = Append(post_outcomes, outcome)
               /\ last_exc' = exc_now
               /\ response' = response_now
               /\ IF outcome.kind = "response" /\ returns_response(outcome.status)
                  THEN /\ retry_result' = [kind |-> "returned", status |-> outcome.status,
                                           exc |-> NoException]
                       /\ pc' = "posted"
                  ELSE IF last_pass
                  THEN /\ retry_result' = after_loop(exc_now, response_now)
                       /\ pc' = "posted"
                  ELSE UNCHANGED <<retry_result, pc>>
    /\ UNCHANGED <<max_retries, payload_vars, odds_vars, name_vars, dedup_vars, id_vars,
                   group_vars, line_vars>>

NextRetry == PostAttempt

SpecRetry == InitRetry /\ [][NextRetry]_vars

-----------------------------------------------------------------------------
(* Properties of _post_with_retries *)

\* the attempt got a response with a status below 500
FinalAttempt(i) == post_outcomes[i].kind = "response" /\ post_outcomes[i].status < 500

RaisedAttempts == {i \in 1..Len(post_outcomes) : post_outcomes[i].kind = "exception"}

\* C30: _post_with_retries makes at most max_retries attempts and returns the
\* first response with a status below 500 without a further attempt; when
\* every attempt failed it raises the exception of the latest attempt that
\* raised, also when a later attempt got a 5xx response, and if no attempt
\* raised it returns the last 5xx response.
RetryContract ==
    (max_retries > 0) =>
        LET n == Len(post_outcomes)
        IN  /\ n <= max_retries
            /\ \A i \in 1..(n - 1) : ~FinalAttempt(i)
            /\ pc = "start" =>
                   /\ n < max_retries
                   /\ n > 0 => ~FinalAttempt(n)
                   /\ retry_result = NoResult
            /\ pc = "posted" =>
                   /\ n >= 1
                   /\ IF FinalAttempt(n)
                      THEN /\ retry_result.kind = "returned"
                           /\ retry_result.status = post_outcomes[n].status
                      ELSE /\ n = max_retries
                           /\ IF RaisedAttempts # {}
                              THEN /\ retry_result.kind = "raised"
                                   /\ retry_result.exc =
                                          post_outcomes[SetMax(RaisedAttempts)].exc
                              ELSE /\ retry_result.kind = "returned"
                                   /\ retry_result.status = post_outcomes[n].status
                                   /\ retry_result.status >= 500

RetryContractWitness ==
    /\ pc = "posted"
    /\ max_retries = 3
    /\ Len(post_outcomes) = 3
    /\ post_outcomes[1].exc = "Timeout"
    /\ post_outcomes[2].exc = "ConnectionError"
    /\ post_outcomes[3].status = 503
    /\ retry_result.kind = "raised"
    /\ retry_result.exc = "ConnectionError"

-----------------------------------------------------------------------------
(* Properties of the prefix loop and of the copies of process_odds *)

\* the unwanted prefixes that the name starts with, case-insensitively
MatchingPrefixes(name) ==
    {k \in 1..Len(unwanted_prefixes) :
        /\ Len(name) >= Len(unwanted_prefixes[k])
        /\ str_lower(SubSeq(name, 1, Len(unwanted_prefixes[k])))
               = str_lower(unwanted_prefixes[k])}

\* one pass of the loop took before to after
OnePrefixPass(before, after) ==
    IF MatchingPrefixes(before) = {}
    THEN after = before
    ELSE \E k \in MatchingPrefixes(before) :
             /\ \A j \in MatchingPrefixes(before) : k <= j
             /\ after = str_strip(SubSeq(before, Len(unwanted_prefixes[k]) + 1, Len(before)))
             /\ after # before

\* C25: the prefix loop of clean_team_name makes at most 5 passes, each pass
\* removes the first noise prefix of the list that the name starts with and no
\* other, and the first pass that removes nothing is the last pass.
PrefixLoopBounded ==
    (pc = "cleaned" /\ raw_label # NoString) =>
        LET passes == Len(prefix_trace) - 1
        IN  /\ passes \in 1..5
            /\ prefix_trace[1] = str_strip(raw_label)
            /\ \A i \in 1..passes : OnePrefixPass(prefix_trace[i], prefix_trace[i + 1])
            /\ \A i \in 1..(passes - 1) : prefix_trace[i + 1] # prefix_trace[i]
            /\ passes < 5 => prefix_trace[passes + 1] = prefix_trace[passes]
            /\ prefix_trace[passes + 1] = remove_prefixes(str_strip(raw_label), max_iterations)

PrefixLoopBoundedWitness ==
    /\ pc = "cleaned"
    /\ Len(prefix_trace) = 6
    /\ prefix_trace[1] = Repeat(<<"T", "o", "p", " ">>, 6) \o <<"B", "o", "b">>
    /\ prefix_trace[2] = Repeat(<<"T", "o", "p", " ">>, 5) \o <<"B", "o", "b">>
    /\ prefix_trace[6] = <<"T", "o", "p", " ", "B", "o", "b">>

\* C26: the copies of process_odds in debug_scraper.py,
\* fixed_championship_scraper.py and successful_test.py return what the copy
\* in flask_app.py returns, for every input string.
ProcessOddsCopiesAgree ==
    pc = "done" =>
        /\ copy_results.debug = odds_result
        /\ copy_results.fixed = odds_result
        /\ copy_results.successful_test = odds_result

ProcessOddsCopiesAgreeWitness ==
    /\ pc = "done"
    /\ odds_str = <<"-", "2", "6", "6", "8", "0">>
    /\ odds_result = <<"-", "2", "0", "0", "0", "0">>
    /\ copy_results.debug = <<"-", "2", "0", "0", "0", "0">>
    /\ copy_results.fixed = <<"-", "2", "0", "0", "0", "0">>
    /\ copy_results.successful_test = <<"-", "2", "0", "0", "0", "0">>

-----------------------------------------------------------------------------
(* Properties of ensure_all_players_have_entries *)

\* the entries all have the 'team' key
AllHaveTeam(entries) == \A i \in 1..Len(entries) : "team" \in DOMAIN entries[i]

-----------------------------------------------------------------------------
(* Properties of the records without a name *)

\* C28: remove_duplicate_drivers drops every record whose normalized name is
\* empty, the first such record included: no output record has an empty name,
\* and the output has one record per non-empty normalized name of the input.
EmptyNamesDropped ==
    AfterRemoveDuplicates =>
        /\ \A j \in 1..Len(unique_data) : unique_data[j].team # NoString
        /\ Len(unique_data) =
               Cardinality({InputNames[i] : i \in 1..Len(dedup_input)} \ {NoString})
        /\ (\A i \in 1..Len(dedup_input) : InputNames[i] = NoString) => unique_data = <<>>

EmptyNamesDroppedWitness ==
    /\ pc = "deduplicated"
    /\ Len(dedup_input) = 2
    /\ dedup_input[1].team = NoString
    /\ dedup_input[2].team = <<"R", "a", "c", "e", " ", "W", "i", "n", "n", "e", "r">>
    /\ unique_data = <<>>

-----------------------------------------------------------------------------
(* Properties of reset *)

\* the step is a call of the named method
CallOf(op) == id_calls' = id_calls + 1 /\ last_call'.op = op

\* C29: reset(start) with start outside [1000000, 9999999] raises ValueError
\* and leaves the counter unchanged; after reset(start) with start inside the
\* range the next get_next_id returns start, whatever was issued before.
ResetRestartsAtStart ==
    [][/\ CallOf("reset") =>
              IF last_call'.arg < 1000000 \/ last_call'.arg > 9999999
              THEN /\ last_call'.outcome = "ValueError"
                   /\ current_id' = current_id
              ELSE last_call'.outcome = "returned"
       /\ (last_call.op = "reset" /\ last_call.outcome = "returned"
              /\ CallOf("get_next_id")) =>
              /\ last_call'.outcome = "returned"
              /\ last_call'.value = last_call.arg
       /\ (issued = <<>> /\ all_issued # <<>> /\ CallOf("get_next_id")) =>
              /\ last_call'.outcome = "returned"
              /\ last_call'.value = constructed_start]_vars

ResetRestartsAtStartWitness ==
    /\ last_call.op = "get_next_id"
    /\ last_call.outcome = "returned"
    /\ last_call.value = 1000000
    /\ constructed_start = 1000000
    /\ all_issued = <<9999999, 1000000>>
    /\ id_calls = 4

-----------------------------------------------------------------------------
(* Properties of the payloads and of the submission *)

\* the odds-submission payloads built so far
BuiltGameValues ==
    {odds_submission_payload} \cup
        {tournament_payloads[k].game_values : k \in 1..Len(tournament_payloads)}

\* C21: every Id of an odds-submission payload is an integer in
\* [1000000, 9999999], the Ids of a payload are pairwise distinct, and the Id
\* of the i-th entry, counted from 0, is the Id of the first entry plus i.
PayloadIdsSevenDigits ==
    \A game_values \in BuiltGameValues :
        /\ \A i \in 1..Len(game_values) :
               /\ game_values[i].Id \in 1000000..9999999
               /\ game_values[i].Id = game_values[1].Id + (i - 1)
        /\ \A i, j \in 1..Len(game_values) :
               i # j => game_values[i].Id # game_values[j].Id

\* C22: NumTeams of the game-creation payload is the number of team entries
\* of the odds-submission payload built in the same pass, for championship,
\* conference and division events.
NumTeamsCountsEntries ==
    (pc \in {"generate_payloads_done", "run_scraper_done"} /\ payload_built) =>
        payload_num_teams = Len(odds_submission_payload)

\* the Ids of the payloads of the betting lines, in order
RECURSIVE IdsOfLines(_)
IdsOfLines(payloads) ==
    IF payloads = <<>> THEN <<>>
    ELSE [i \in 1..Len(Head(payloads).game_values) |-> Head(payloads).game_values[i].Id]
             \o IdsOfLines(Tail(payloads))

\* the tournaments with odds data among the first n
LinesWithOdds(n) ==
    SelectSeq(SubSeq(tournaments_data, 1, n), LAMBDA t : t.odds_data # <<>>)

\* the entries of the lines, all together
RECURSIVE EntryCount(_)
EntryCount(lines) ==
    IF lines = <<>> THEN 0 ELSE Len(Head(lines).odds_data) + EntryCount(Tail(lines))

\* the tournaments the multi-line pass has gone through
LinesDone ==
    IF pc = "generate_multi_line_payloads_done" THEN Len(tournaments_data) ELSE line_index

\* C23: in a multi-line pass one ID assigner serves all betting lines: the
\* first line with odds data starts at start_id, every later one at the last
\* Id of the line before it plus 1, and a line without odds data gets no
\* payload and consumes no Id.
LinesShareOneAssigner ==
    (pc \in {"generate_multi_line_payloads_done", "submit_all", "submit_all_done"}) =>
        LET ids == IdsOfLines(tournament_payloads)
            served == LinesWithOdds(LinesDone)
        IN  /\ \A i \in 1..Len(ids) : ids[i] = request_start_id + (i - 1)
            /\ Len(tournament_payloads) <= Len(served)
            /\ \A k \in 1..Len(tournament_payloads) :
                   /\ tournament_payloads[k].line_name = served[k].line_name
                   /\ Len(tournament_payloads[k].game_values) = Len(served[k].odds_data)
                   /\ tournament_payloads[k].game_values[1].Id =
                          IF k = 1 THEN request_start_id
                          ELSE tournament_payloads[k - 1].game_values[
                                   Len(tournament_payloads[k - 1].game_values)].Id + 1
            /\ (endpoint_status = 200
                  /\ request_start_id + EntryCount(served) - 1 <= 9999999) =>
                   Len(tournament_payloads) = Len(served)

LinesShareOneAssignerWitness ==
    /\ pc = "submit_all_done"
    /\ request_start_id = 1000000
    /\ Len(tournaments_data) = 3
    /\ Len(tournaments_data[1].odds_data) = 2
    /\ Len(tournaments_data[2].odds_data) = 0
    /\ Len(tournaments_data[3].odds_data) = 1
    /\ Len(tournament_payloads) = 2
    /\ IdsOfLines(tournament_payloads) = <<1000000, 1000001, 1000002>>
    /\ tournament_payloads[2].line_name = "Top 4"

\* the game ids that the body of an InsertGame response carries
BodyGameIds(body) ==
    IF body.is_dict
    THEN {body.dict[key] : key \in DOMAIN body.dict \cap {"idGame", "IdGame", "id"}}
    ELSE {body.number}

\* C24: odds are posted to InsertGameValuesTNT only right after an InsertGame
\* post that returned 200 with a game id, and with that id; a game whose
\* creation failed, raised or gave no id gets no odds post.
OddsOnlyForCreatedGame ==
    \A i \in 1..Len(api_calls) :
        api_calls[i].endpoint = "InsertGameValuesTNT" =>
            /\ i > 1
            /\ api_calls[i - 1].endpoint = "InsertGame"
            /\ api_calls[i - 1].status = 200
            /\ id_truthy(api_calls[i].idGame)
            /\ api_calls[i].idGame \in BodyGameIds(api_calls[i - 1].body)

=============================================================================
